---- MODULE Spec2Model ----
(***************************************************************************)
(* Semantic metrics engine (src/src/semanticEngine.ts): the filter         *)
(* matcher, the grain-aware context filter, the recursive memoized metric  *)
(* evaluator, the context transforms, the query runner and the query       *)
(* builder, as a state machine over the in-memory database, one            *)
(* caller-held evaluation cache, the heap of the builders' objects and the *)
(* record of the last call.                                                *)
(***************************************************************************)
EXTENDS Integers, Sequences, FiniteSets, TLC

(***************************************************************************)
(* Bounds of the model.                                                    *)
(***************************************************************************)
\* number of rows that may be appended to a table
MaxAdded == 1
\* number of evaluateMetric calls that share the caller-held cache
MaxCalls == 2
\* depth of the JS call stack available to the recursive evaluator
MaxStack == 6

\* query builders created in one session
MaxBuilders == 4

(***************************************************************************)
(* JS values.  Numbers are exact rationals n/d in lowest terms (d > 0).    *)
(***************************************************************************)
RECURSIVE Gcd(_, _)
Gcd(a, b) == IF b = 0 THEN a ELSE Gcd(b, a % b)

Abs(n) == IF n < 0 THEN 0 - n ELSE n

Rat(n, d) ==
  LET s == IF d < 0 THEN 0 - 1 ELSE 1
      g == Gcd(Abs(n), Abs(d))
  IN  [t |-> "num", n |-> (s * n) \div g, d |-> (s * d) \div g]

Num(n) == [t |-> "num", n |-> n, d |-> 1]
Str(s) == [t |-> "str", s |-> s]
Null == [t |-> "null"]
Undef == [t |-> "undef"]
NaN == [t |-> "nan"]
\* a plain JS object: its own enumerable properties in insertion order
Obj(entries) == [t |-> "obj", o |-> entries]

IsNum(v) == v.t = "num"
\* v == null (loose): null or undefined
IsNullish(v) == v.t \in {"null", "undef"}

\* Number(v)
ToNumber(v) ==
  CASE v.t = "num" -> v
    [] v.t = "null" -> Num(0)
    [] OTHER -> NaN

\* a + b, a - b, a * b, a / b on numbers (NaN is contagious)
NumAdd(a, b) ==
  IF IsNum(a) /\ IsNum(b) THEN Rat(a.n * b.d + b.n * a.d, a.d * b.d) ELSE NaN

NumSub(a, b) ==
  IF IsNum(a) /\ IsNum(b) THEN Rat(a.n * b.d - b.n * a.d, a.d * b.d) ELSE NaN

NumMul(a, b) ==
  IF IsNum(a) /\ IsNum(b) THEN Rat(a.n * b.n, a.d * b.d) ELSE NaN

NumDiv(a, b) ==
  IF IsNum(a) /\ IsNum(b) /\ b.n # 0 THEN Rat(a.n * b.d, a.d * b.n) ELSE NaN

\* a < b and a <= b after ToNumber (false as soon as one side is NaN)
JsLt(a, b) ==
  LET x == ToNumber(a)
      y == ToNumber(b)
  IN  IsNum(x) /\ IsNum(y) /\ x.n * y.d < y.n * x.d

JsLe(a, b) ==
  LET x == ToNumber(a)
      y == ToNumber(b)
  IN  IsNum(x) /\ IsNum(y) /\ x.n * y.d <= y.n * x.d

\* a === b
StrictEq(a, b) == a.t # "nan" /\ a = b

\* a ?? b
Coalesce(a, b) == IF IsNullish(a) THEN b ELSE a

\* truthiness of a number or null, as in `if (!b)` and `qty ? x : y`
Truthy(v) == IsNum(v) /\ v.n # 0

(***************************************************************************)
(* JS objects as sequences of <<key, value>> entries.                      *)
(***************************************************************************)
ObjKeys(o) == {o[i][1] : i \in 1..Len(o)}

\* o[k], undefined when o has no property k
ObjGet(o, k) ==
  IF k \in ObjKeys(o)
  THEN LET i == CHOOSE j \in 1..Len(o) : o[j][1] = k IN o[i][2]
  ELSE Undef

\* {...o, [k]: v}: an existing key keeps its position, a new key goes last
ObjSet(o, k, v) ==
  IF k \in ObjKeys(o)
  THEN [i \in 1..Len(o) |-> IF o[i][1] = k THEN <<k, v>> ELSE o[i]]
  ELSE Append(o, <<k, v>>)

\* {...a, ...b}
RECURSIVE Spread(_, _)
Spread(a, b) ==
  IF b = <<>> THEN a ELSE Spread(ObjSet(a, Head(b)[1], Head(b)[2]), Tail(b))

\* JSON.stringify(v) followed by nothing else: the text is modelled by the
\* structure it denotes (undefined properties dropped, NaN written as null)
RECURSIVE JsonValue(_)
RECURSIVE JsonEntries(_)
JsonValue(v) ==
  CASE v.t = "nan" -> Null
    [] v.t = "obj" -> Obj(JsonEntries(v.o))
    [] OTHER -> v

JsonEntries(o) ==
  IF o = <<>> THEN <<>>
  ELSE IF Head(o)[2].t = "undef" THEN JsonEntries(Tail(o))
       ELSE <<<<Head(o)[1], JsonValue(Head(o)[2])>>>> \o JsonEntries(Tail(o))

\* a table row (an unordered record) read as row[k]
RowGet(r, k) == IF k \in DOMAIN r THEN r[k] ELSE Undef

(***************************************************************************)
(* Filter matcher and grain-aware context filter.                          *)
(***************************************************************************)
\* a matcher that checks gte, lte, gt and lt as well on a filter that has a
\* from or a to key
matchesFilterCheckingAll(value, filter) ==
  IF filter.t = "obj"
  THEN LET f == filter.o
       IN  /\ ~(~IsNullish(ObjGet(f, "from")) /\ JsLt(value, ObjGet(f, "from")))
           /\ ~(~IsNullish(ObjGet(f, "to")) /\ JsLt(ObjGet(f, "to"), value))
           /\ ~(~IsNullish(ObjGet(f, "gte")) /\ JsLt(value, ObjGet(f, "gte")))
           /\ ~(~IsNullish(ObjGet(f, "lte")) /\ JsLt(ObjGet(f, "lte"), value))
           /\ ~(~IsNullish(ObjGet(f, "gt")) /\ JsLe(value, ObjGet(f, "gt")))
           /\ ~(~IsNullish(ObjGet(f, "lt")) /\ JsLe(ObjGet(f, "lt"), value))
  ELSE StrictEq(value, filter)

\* matchesFilter(value, filter); range bounds are numbers (FilterRange)
matchesFilter(value, filter) ==
  IF filter.t = "obj"
  THEN LET f == filter.o
       IN  IF "from" \in ObjKeys(f) \/ "to" \in ObjKeys(f)
           THEN /\ ~(~IsNullish(ObjGet(f, "from")) /\ JsLt(value, ObjGet(f, "from")))
                /\ ~(~IsNullish(ObjGet(f, "to")) /\ JsLt(ObjGet(f, "to"), value))
           ELSE /\ ~(~IsNullish(ObjGet(f, "gte")) /\ JsLt(value, ObjGet(f, "gte")))
                /\ ~(~IsNullish(ObjGet(f, "lte")) /\ JsLt(ObjGet(f, "lte"), value))
                /\ ~(~IsNullish(ObjGet(f, "gt")) /\ JsLe(value, ObjGet(f, "gt")))
                /\ ~(~IsNullish(ObjGet(f, "lt")) /\ JsLe(ObjGet(f, "lt"), value))
  ELSE StrictEq(value, filter)

\* a filter that honours every key of the context, in the grain or not
RECURSIVE applyContextIgnoringGrain(_, _, _)
applyContextIgnoringGrain(rows, context, grain) ==
  IF context = <<>> THEN rows
  ELSE LET key == Head(context)[1]
           filter == Head(context)[2]
           Pred(r) == matchesFilter(RowGet(r, key), filter)
           q == IF IsNullish(filter) THEN rows ELSE SelectSeq(rows, Pred)
       IN  applyContextIgnoringGrain(q, Tail(context), grain)

\* applyContextToFact(rows, context, grain): one where() per honoured entry
RECURSIVE applyContextToFact(_, _, _)
applyContextToFact(rows, context, grain) ==
  IF context = <<>> THEN rows
  ELSE LET key == Head(context)[1]
           filter == Head(context)[2]
           Pred(r) == matchesFilter(RowGet(r, key), filter)
           q == IF IsNullish(filter) \/ key \notin grain
                THEN rows
                ELSE SelectSeq(rows, Pred)
       IN  applyContextToFact(q, Tail(context), grain)

(***************************************************************************)
(* Demo database and registries (the POC data of semanticEngine.ts),       *)
(* extended by misconfigured entries that exercise the lookup errors.      *)
(***************************************************************************)
SalesRow(y, m, r, p, q, a) ==
  [year |-> Num(y), month |-> Num(m), regionId |-> Str(r),
   productId |-> Num(p), quantity |-> Num(q), amount |-> Num(a)]

BudgetRow(y, r, b) == [year |-> Num(y), regionId |-> Str(r), budgetAmount |-> Num(b)]

demoSales ==
  << SalesRow(2024, 1, "NA", 1, 7, 700),
     SalesRow(2024, 1, "NA", 2, 4, 480),
     SalesRow(2024, 2, "NA", 1, 5, 650),
     SalesRow(2024, 2, "EU", 1, 3, 420),
     SalesRow(2025, 1, "NA", 1, 10, 1000),
     SalesRow(2025, 1, "NA", 2, 5, 600),
     SalesRow(2025, 1, "EU", 1, 4, 500),
     SalesRow(2025, 2, "NA", 1, 8, 950),
     SalesRow(2025, 2, "EU", 2, 3, 450) >>

demoBudget ==
  << BudgetRow(2024, "NA", 1500),
     BudgetRow(2024, "EU", 1000),
     BudgetRow(2025, "NA", 2200),
     BudgetRow(2025, "EU", 1600) >>

\* db.tables: table name -> rows; a name outside the domain has no row data
demoRegions ==
  << [regionId |-> Str("NA"), name |-> Str("North America")],
     [regionId |-> Str("EU"), name |-> Str("Europe")] >>

demoProducts ==
  << [productId |-> Num(1), name |-> Str("Widget A")],
     [productId |-> Num(2), name |-> Str("Widget B")] >>

demoDb ==
  [products |-> demoProducts, regions |-> demoRegions,
   sales |-> demoSales, budget |-> demoBudget]

\* the databases an engine may be built over: the demo data, the same with no
\* sales yet, and one whose budget and products tables were never loaded
emptySalesDb ==
  [products |-> demoProducts, regions |-> demoRegions,
   sales |-> <<>>, budget |-> demoBudget]

noBudgetDb == [regions |-> demoRegions, sales |-> demoSales]

\* the demo data with one more sale, whose region is not known (a Row maps a
\* field to a scalar or to null)
nullRegionDb ==
  [products |-> demoProducts, regions |-> demoRegions,
   sales |-> Append(demoSales,
                    [year |-> Num(2025), month |-> Num(2), regionId |-> Null,
                     productId |-> Num(1), quantity |-> Num(2), amount |-> Num(200)]),
   budget |-> demoBudget]

InitialDbs == { demoDb, emptySalesDb, noBudgetDb, nullRegionDb }

\* rows a caller may append to db.tables.sales between calls
NewSalesRows == { SalesRow(2025, 2, "NA", 2, 1, 100) }

demoAttributes ==
  [ year |-> [table |-> "sales", column |-> "year"],
    month |-> [table |-> "sales", column |-> "month"],
    regionId |-> [table |-> "sales", column |-> "regionId", displayName |-> "regionName"],
    productId |->
      [table |-> "sales", column |-> "productId", displayName |-> "productName"],
    budgetYear |-> [table |-> "budget", column |-> "year"],
    \* misconfigured: no row data is ever loaded for its table
    forecastYear |-> [table |-> "forecast", column |-> "year"] ]

demoMeasures ==
  [ salesAmount |-> [table |-> "sales", column |-> "amount", aggregation |-> "sum"],
    salesQuantity |-> [table |-> "sales", column |-> "quantity", aggregation |-> "sum"],
    orderCount |-> [table |-> "sales", column |-> "quantity", aggregation |-> "count"],
    budgetAmount |-> [table |-> "budget", column |-> "budgetAmount", aggregation |-> "sum"],
    \* a measure of the sixth aggregation, which no demo measure uses
    regionCount |-> [table |-> "sales", column |-> "regionId", aggregation |-> "distinct"] ]

\* metricRegistry; an optional property (grain) is a field that may be absent
demoMetrics ==
  [ revenue |-> [kind |-> "simple", measure |-> "salesAmount", format |-> "currency"],
    budget |-> [kind |-> "simple", measure |-> "budgetAmount", format |-> "currency"],
    revenueByRegion |->
      [kind |-> "simple", measure |-> "salesAmount", grain |-> {"year", "regionId"}],
    pricePerUnit |->
      [kind |-> "expression", factTable |-> "sales", expression |-> "pricePerUnit",
       format |-> "currency"],
    salesVsBudgetPct |->
      [kind |-> "derived", dependencies |-> <<"revenue", "budget">>,
       evalFromDeps |-> "salesVsBudgetPct", format |-> "percent"],
    salesAmountYTD |->
      [kind |-> "contextTransform", baseMeasure |-> "revenue", transform |-> "ytd",
       format |-> "currency"],
    salesAmountLastYear |->
      [kind |-> "contextTransform", baseMeasure |-> "revenue", transform |-> "lastYear",
       format |-> "currency"],
    salesAmountYTDLastYear |->
      [kind |-> "contextTransform", baseMeasure |-> "revenue", transform |-> "ytdLastYear",
       format |-> "currency"],
    budgetYTD |->
      [kind |-> "contextTransform", baseMeasure |-> "budget", transform |-> "ytd",
       format |-> "currency"],
    salesVsBudgetPctYTD |->
      [kind |-> "derived", dependencies |-> <<"salesAmountYTD", "budgetYTD">>,
       evalFromDeps |-> "salesVsBudgetPctYTD", format |-> "percent"],
    \* a ContextTransform metric over a ContextTransform metric
    salesAmountPriorMonthYTD |->
      [kind |-> "contextTransform", baseMeasure |-> "salesAmountYTD",
       transform |-> "priorMonth", format |-> "currency"],
    \* simple metrics over the count and the distinct measures
    orders |-> [kind |-> "simple", measure |-> "orderCount", format |-> "integer"],
    regionsSold |-> [kind |-> "simple", measure |-> "regionCount", format |-> "integer"],
    \* misconfigured definitions
    noMeasure |-> [kind |-> "simple", measure |-> "missingMeasure"],
    noDependency |->
      [kind |-> "derived", dependencies |-> <<"revenue", "unknownMetric">>,
       evalFromDeps |-> "salesVsBudgetPct"],
    lateDependency |->
      [kind |-> "derived", dependencies |-> <<"noMeasure", "unknownMetric">>,
       evalFromDeps |-> "salesVsBudgetPct"],
    noBase |->
      [kind |-> "contextTransform", baseMeasure |-> "unknownMetric", transform |-> "ytd"],
    nestedNoBase |->
      [kind |-> "derived", dependencies |-> <<"revenue", "noBase">>,
       evalFromDeps |-> "salesVsBudgetPct"],
    noTransform |->
      [kind |-> "contextTransform", baseMeasure |-> "revenue",
       transform |-> "unknownTransform"],
    noBaseNoTransform |->
      [kind |-> "contextTransform", baseMeasure |-> "unknownMetric",
       transform |-> "unknownTransform"],
    \* definitions on a dependency cycle, and one that leads into a cycle
    selfLoop |->
      [kind |-> "derived", dependencies |-> <<"selfLoop">>,
       evalFromDeps |-> "salesVsBudgetPct"],
    cycleA |->
      [kind |-> "derived", dependencies |-> <<"revenue", "cycleB">>,
       evalFromDeps |-> "salesVsBudgetPct"],
    cycleB |->
      [kind |-> "contextTransform", baseMeasure |-> "cycleA", transform |-> "lastYear"],
    intoCycle |->
      [kind |-> "contextTransform", baseMeasure |-> "cycleA", transform |-> "ytd"] ]

MetricNames == DOMAIN demoMetrics \cup {"unknownMetric"}

(***************************************************************************)
(* Context transforms.                                                     *)
(***************************************************************************)
ytd(ctx) ==
  IF IsNullish(ObjGet(ctx, "year")) \/ IsNullish(ObjGet(ctx, "month")) THEN ctx
  ELSE ObjSet(ctx, "month", Obj(<<<<"lte", ToNumber(ObjGet(ctx, "month"))>>>>))

\* a lastYear that shifts the year of a context only while its month is not
\* a range
lastYearOfScalarMonth(ctx) ==
  IF IsNullish(ObjGet(ctx, "year")) \/ ObjGet(ctx, "month").t = "obj" THEN ctx
  ELSE ObjSet(ctx, "year", NumSub(ToNumber(ObjGet(ctx, "year")), Num(1)))

lastYear(ctx) ==
  IF IsNullish(ObjGet(ctx, "year")) THEN ctx
  ELSE ObjSet(ctx, "year", NumSub(ToNumber(ObjGet(ctx, "year")), Num(1)))

priorMonth(ctx) ==
  IF IsNullish(ObjGet(ctx, "month")) THEN ctx
  ELSE ObjSet(ctx, "month", NumSub(ToNumber(ObjGet(ctx, "month")), Num(1)))

rollingMonths(count, ctx) ==
  IF IsNullish(ObjGet(ctx, "month")) THEN ctx
  ELSE LET currentMonth == ToNumber(ObjGet(ctx, "month"))
       IN  ObjSet(ctx, "month",
                  Obj(<< <<"gte", NumAdd(NumSub(currentMonth, Num(count)), Num(1))>>,
                         <<"lte", currentMonth>> >>))

\* a composition that runs its transforms right to left
RECURSIVE ApplyRightToLeft(_, _)
ApplyRightToLeft(fn, ctx) ==
  CASE fn.fn = "ytd" -> ytd(ctx)
    [] fn.fn = "lastYear" -> lastYear(ctx)
    [] fn.fn = "priorMonth" -> priorMonth(ctx)
    [] fn.fn = "rollingMonths" -> rollingMonths(fn.count, ctx)
    [] fn.fn = "compose" ->
         IF fn.of = <<>> THEN ctx
         ELSE ApplyRightToLeft(Head(fn.of),
                               ApplyRightToLeft([fn |-> "compose", of |-> Tail(fn.of)], ctx))

\* a transform function value applied to a context; composeTransforms(t1..tn)
\* is the value [fn |-> "compose", of |-> <<t1, .., tn>>], a left-to-right reduce
RECURSIVE ApplyTransform(_, _)
ApplyTransform(fn, ctx) ==
  CASE fn.fn = "ytd" -> ytd(ctx)
    [] fn.fn = "lastYear" -> lastYear(ctx)
    [] fn.fn = "priorMonth" -> priorMonth(ctx)
    [] fn.fn = "rollingMonths" -> rollingMonths(fn.count, ctx)
    [] fn.fn = "compose" ->
         IF fn.of = <<>> THEN ctx
         ELSE ApplyTransform([fn |-> "compose", of |-> Tail(fn.of)],
                             ApplyTransform(Head(fn.of), ctx))

composeTransforms(transforms) == [fn |-> "compose", of |-> transforms]

demoTransforms ==
  [ ytd |-> [fn |-> "ytd"],
    lastYear |-> [fn |-> "lastYear"],
    priorMonth |-> [fn |-> "priorMonth"],
    ytdLastYear |-> composeTransforms(<<[fn |-> "ytd"], [fn |-> "lastYear"]>>),
    priorMonthLastYear |->
      composeTransforms(<<[fn |-> "priorMonth"], [fn |-> "lastYear"]>>),
    rolling3Months |-> [fn |-> "rollingMonths", count |-> 3],
    rolling6Months |-> [fn |-> "rollingMonths", count |-> 6] ]

(***************************************************************************)
(* Metric evaluation engine.                                               *)
(***************************************************************************)
\* the evaluation cache: Map<string, number | null>
EmptyCache == [k \in {} |-> Null]

\* cacheKey(metricName, context): the pair stands for name + "::" + JSON text
cacheKey(metricName, context) == <<metricName, JsonEntries(context)>>

\* a truthiness test of cache.get(key) in the place of cache.has(key)
CacheHasTruthy(cache, key) == key \in DOMAIN cache /\ Truthy(cache[key])

\* cache.has(key)
CacheHas(cache, key) == key \in DOMAIN cache

\* a cache that keeps one entry per metric: setting a key drops the entries the
\* metric has under other contexts
CacheSetEvicting(cache, key, value) ==
  [k \in {j \in DOMAIN cache : j[1] # key[1]} \cup {key} |->
     IF k = key THEN value ELSE cache[k]]

\* cache.set(key, value)
CacheSet(cache, key, value) ==
  [k \in DOMAIN cache \cup {key} |-> IF k = key THEN value ELSE cache[k]]

\* a grain fallback of every dimension of the model, whatever the table holds
AllDimensionKeys(rows) == {"year", "month", "regionId", "productId"}

\* Object.keys(rows[0] || {})
FirstRowKeys(rows) == IF rows = <<>> THEN {} ELSE DOMAIN rows[1]

\* rows.sum(r => Number(r[col] ?? 0))
RECURSIVE SumColumn(_, _)
SumColumn(rows, col) ==
  IF rows = <<>> THEN Num(0)
  ELSE NumAdd(ToNumber(Coalesce(RowGet(Head(rows), col), Num(0))),
              SumColumn(Tail(rows), col))

\* rows.distinct(r => r[col]).count()
DistinctCount(rows, col) == Num(Cardinality({RowGet(rows[i], col) : i \in 1..Len(rows)}))

\* aggregations that have no value, null, over no rows
AggregateOfSomeRows(aggregation, rows, col) ==
  IF rows = <<>> THEN Null
  ELSE CASE aggregation = "sum" -> SumColumn(rows, col)
         [] aggregation = "count" -> Num(Len(rows))
         [] aggregation = "distinct" -> DistinctCount(rows, col)

\* the built-in aggregations of a measure over the filtered rows (sum, count
\* and distinct; no metric of the registry uses avg, min or max)
Aggregate(aggregation, rows, col) ==
  CASE aggregation = "sum" -> SumColumn(rows, col)
    [] aggregation = "count" -> Num(Len(rows))
    [] aggregation = "distinct" -> DistinctCount(rows, col)

\* demoMetrics.pricePerUnit.expression
pricePerUnit(rows) ==
  LET amount == SumColumn(rows, "amount")
      qty == SumColumn(rows, "quantity")
  IN  IF Truthy(qty) THEN NumDiv(amount, qty) ELSE Null

\* ExpressionMetric.expression(rows, db, context), by the function's name
ApplyExpression(name, rows, db, context) ==
  CASE name = "pricePerUnit" -> pricePerUnit(rows)

\* the two ratio metrics: (s / b) * 100, or null when b is falsy
RatioPct(sales, budget) ==
  LET sv == Coalesce(sales, Num(0))
      bv == Coalesce(budget, Num(0))
  IN  IF ~Truthy(bv) THEN Null ELSE NumMul(NumDiv(sv, bv), Num(100))

\* DerivedMetric.evalFromDeps(depValues, db, context), by the function's name
ApplyEvalFromDeps(name, depValues, db, context) ==
  CASE name = "salesVsBudgetPct" ->
         RatioPct(ObjGet(depValues, "revenue"), ObjGet(depValues, "budget"))
    [] name = "salesVsBudgetPctYTD" ->
         RatioPct(ObjGet(depValues, "salesAmountYTD"), ObjGet(depValues, "budgetYTD"))

\* a lookup that replaces a missing transform by the identity
LookupTransformOrIdentity(name) ==
  IF name \in DOMAIN demoTransforms THEN demoTransforms[name]
  ELSE composeTransforms(<<>>)

\* transforms[name], undefined when the registry has no such transform
LookupTransform(name) ==
  IF name \in DOMAIN demoTransforms THEN demoTransforms[name] ELSE Undef

\* a transform step that hands the context on as it is
UntransformedContext(transformFn, context) == context

\* transformFn(context || {})
TransformedContext(transformFn, context) == ApplyTransform(transformFn, context)

\* const x = value; ...: the statements after a declaration, with x standing
\* for the value
With(value, Rest(_)) == Rest(value)

\* outcome of a call: a returned value or a thrown error, with the cache as the
\* call left it and the functions it invoked, in order
Returned(v, cache, log) == [st |-> "ok", v |-> v, cache |-> cache, log |-> log]

\* an error path that empties the cache
ThrownClearing(msg, name, cache, log) ==
  [st |-> "error", msg |-> msg, name |-> name, cache |-> EmptyCache, log |-> log]

Thrown(msg, name, cache, log) ==
  [st |-> "error", msg |-> msg, name |-> name, cache |-> cache, log |-> log]

\* the part of evaluateMetric after the cache check and the registry lookup:
\* the value of a simple or expression metric, which evaluates no other metric
EvaluateLeaf(metricName, def, db, context, cache, hasMeasures) ==
  IF def.kind = "simple"
  THEN IF ~hasMeasures
       THEN Thrown("MeasureRegistry required for simple metrics", metricName, cache, <<>>)
       ELSE IF def.measure \notin DOMAIN demoMeasures
       THEN Thrown("Unknown measure", def.measure, cache, <<>>)
       ELSE LET measureDef == demoMeasures[def.measure]
            IN  IF measureDef.table \notin DOMAIN db
                THEN Thrown("Missing rows for table", measureDef.table, cache, <<>>)
                ELSE LET rows == db[measureDef.table]
                         grain == IF "grain" \in DOMAIN def THEN def.grain
                                  ELSE FirstRowKeys(rows)
                     IN  With(applyContextToFact(rows, context, grain),
                           LAMBDA filteredRows :
                             Returned(
                               Aggregate(measureDef.aggregation, filteredRows,
                                         measureDef.column),
                               cache,
                               <<[ev |-> "aggregate", metric |-> metricName,
                                  measure |-> def.measure, rows |-> filteredRows]>>))
  ELSE IF def.factTable \notin DOMAIN db
       THEN Thrown("Missing rows for fact table", def.factTable, cache, <<>>)
       ELSE LET rows == db[def.factTable]
                grain == IF "grain" \in DOMAIN def THEN def.grain
                         ELSE FirstRowKeys(rows)
            IN  With(applyContextToFact(rows, context, grain),
                  LAMBDA q :
                    Returned(
                      ApplyExpression(def.expression, q, db, context),
                      cache,
                      <<[ev |-> "expression", metric |-> metricName,
                         rows |-> q, context |-> context]>>))

\* evaluateMetric(metricName, db, metricRegistry, context, transforms, cache,
\* measureRegistry) with `depth` stack frames left; EvaluateDependencies is its
\* loop over def.dependencies from position i on
RECURSIVE evaluateMetric(_, _, _, _, _, _)
RECURSIVE EvaluateDependencies(_, _, _, _, _, _, _, _)
evaluateMetric(metricName, db, context, cache, hasMeasures, depth) ==
  With(cacheKey(metricName, context), LAMBDA key :
  With([ev |-> "call", metric |-> metricName, context |-> context,
        hit |-> CacheHas(cache, key)], LAMBDA call :
  IF depth = 0
  THEN Thrown("Maximum call stack size exceeded", "", cache, <<>>)
  ELSE IF CacheHas(cache, key)
  THEN Returned(Coalesce(cache[key], Null), cache, <<call>>)
  ELSE IF metricName \notin DOMAIN demoMetrics
  THEN Thrown("Unknown metric", metricName, cache, <<call>>)
  ELSE
    With(demoMetrics[metricName], LAMBDA def :
    With(CASE def.kind \in {"simple", "expression"} ->
                EvaluateLeaf(metricName, def, db, context, cache, hasMeasures)
           [] def.kind = "derived" ->
                With(EvaluateDependencies(def.dependencies, 1, <<>>, db,
                                          context, cache, hasMeasures, depth),
                  LAMBDA d :
                    IF d.st = "error" THEN d
                    ELSE Returned(
                           ApplyEvalFromDeps(def.evalFromDeps, d.v, db, context),
                           d.cache,
                           Append(d.log,
                                  [ev |-> "combine", metric |-> metricName,
                                   depValues |-> d.v, context |-> context])))
           [] def.kind = "contextTransform" ->
                With(LookupTransform(def.transform), LAMBDA transformFn :
                  IF transformFn = Undef
                  THEN Thrown("Unknown context transform", def.transform, cache, <<>>)
                  ELSE With(TransformedContext(transformFn, context),
                         LAMBDA transformedContext :
                           With(evaluateMetric(def.baseMeasure, db, transformedContext,
                                               cache, hasMeasures, depth - 1),
                             LAMBDA b :
                               [b EXCEPT !.log =
                                  <<[ev |-> "transform", metric |-> metricName,
                                     name |-> def.transform, context |-> context,
                                     out |-> transformedContext]>> \o @]))),
      LAMBDA r :
        IF r.st = "error"
        THEN [r EXCEPT !.log = <<call>> \o @]
        ELSE Returned(r.v, CacheSet(r.cache, key, r.v), <<call>> \o r.log)))))

\* a dependency loop in which a ContextTransform dependency leaves its
\* transformed context to the dependencies after it
EvaluateDependenciesCarrying(deps, i, depValues, db, context, cache, hasMeasures, depth) ==
  IF i > Len(deps) THEN Returned(depValues, cache, <<>>)
  ELSE With(evaluateMetric(deps[i], db, context, cache, hasMeasures, depth - 1),
         LAMBDA r :
           IF r.st = "error" THEN r
           ELSE With(EvaluateDependencies(
                       deps, i + 1, ObjSet(depValues, deps[i], r.v), db,
                       IF deps[i] \in DOMAIN demoMetrics
                          /\ demoMetrics[deps[i]].kind = "contextTransform"
                       THEN ApplyTransform(demoTransforms[demoMetrics[deps[i]].transform],
                                           context)
                       ELSE context,
                       r.cache, hasMeasures, depth),
                  LAMBDA rest : [rest EXCEPT !.log = r.log \o @]))

\* a dependency loop that catches the error of a dependency and goes on with
\* null in its place
EvaluateDependenciesCatching(deps, i, depValues, db, context, cache, hasMeasures, depth) ==
  IF i > Len(deps) THEN Returned(depValues, cache, <<>>)
  ELSE With(evaluateMetric(deps[i], db, context, cache, hasMeasures, depth - 1),
         LAMBDA r :
           With(EvaluateDependencies(
                  deps, i + 1,
                  ObjSet(depValues, deps[i], IF r.st = "error" THEN Null ELSE r.v),
                  db, context, r.cache, hasMeasures, depth),
             LAMBDA rest : [rest EXCEPT !.log = r.log \o @]))

EvaluateDependencies(deps, i, depValues, db, context, cache, hasMeasures, depth) ==
  IF i > Len(deps) THEN Returned(depValues, cache, <<>>)
  ELSE With(evaluateMetric(deps[i], db, context, cache, hasMeasures, depth - 1),
         LAMBDA r :
           IF r.st = "error" THEN r
           ELSE With(EvaluateDependencies(deps, i + 1,
                                          ObjSet(depValues, deps[i], r.v), db,
                                          context, r.cache, hasMeasures, depth),
                  LAMBDA rest : [rest EXCEPT !.log = r.log \o @]))

(***************************************************************************)
(* The functional metric system: a metric is a function of a MetricContext *)
(* (filter, grain, db, registries), built by a constructor.  An eval       *)
(* returns a value or throws; there is no cache.                           *)
(***************************************************************************)
Value(v) == [st |-> "ok", v |-> v]

Failed(msg, name) == [st |-> "error", msg |-> msg, name |-> name]

\* makeYtdMetric-style metric: contextTransformMetric({ baseMetric, transform })
makeTransformMetric(baseName, transformFn) ==
  [ctor |-> "contextTransformMetric", baseMetric |-> baseName, transform |-> transformFn]

\* makeYoYMetric(baseName): derivedMetric over the base and `${baseName}LastYear`
makeYoYMetric(baseName) ==
  [ctor |-> "derivedMetric", deps |-> <<baseName, baseName \o "LastYear">>,
   combine |-> [fn |-> "yoy", base |-> baseName]]

\* a MetricDefRegistry with the functional counterparts of the demo metrics
\* and the metrics of the higher-order builders
fnMetrics ==
  [ revenue |-> [ctor |-> "simpleMetric", measure |-> "salesAmount"],
    budget |-> [ctor |-> "simpleMetric", measure |-> "budgetAmount"],
    revenueByRegion |->
      [ctor |-> "simpleMetric", measure |-> "salesAmount", grain |-> {"year", "regionId"}],
    pricePerUnit |->
      [ctor |-> "expressionMetric", table |-> "sales", expression |-> "pricePerUnit"],
    salesVsBudgetPct |->
      [ctor |-> "derivedMetric", deps |-> <<"revenue", "budget">>,
       combine |-> [fn |-> "salesVsBudgetPct"]],
    salesAmountYTD |-> makeTransformMetric("revenue", [fn |-> "ytd"]),
    salesAmountLastYear |-> makeTransformMetric("revenue", [fn |-> "lastYear"]),
    salesAmountYTDLastYear |-> makeTransformMetric("revenue", demoTransforms.ytdLastYear),
    revenueLastYear |-> makeTransformMetric("revenue", [fn |-> "lastYear"]),
    revenueYoY |-> makeYoYMetric("revenue"),
    pricePerUnitLastYear |-> makeTransformMetric("pricePerUnit", [fn |-> "lastYear"]),
    pricePerUnitYoY |-> makeYoYMetric("pricePerUnit") ]

\* a year-over-year combine without its guards
YoYUnguarded(current, prior) ==
  NumMul(NumDiv(NumSub(ToNumber(current), ToNumber(prior)), ToNumber(prior)), Num(100))

\* the combine function of makeYoYMetric
YoY(current, prior) ==
  IF IsNullish(prior) \/ StrictEq(prior, Num(0)) THEN Null
  ELSE IF IsNullish(current) THEN Null
  ELSE NumMul(NumDiv(NumSub(current, prior), prior), Num(100))

\* opts.combine(depValues), by the function's name
ApplyCombine(combine, depValues) ==
  CASE combine.fn = "salesVsBudgetPct" ->
         RatioPct(ObjGet(depValues, "revenue"), ObjGet(depValues, "budget"))
    [] combine.fn = "yoy" ->
         YoY(ObjGet(depValues, combine.base), ObjGet(depValues, combine.base \o "LastYear"))

\* evaluateMeasure(measureName, ctx)
evaluateMeasure(measureName, filter, grain, d) ==
  IF measureName \notin DOMAIN demoMeasures THEN Failed("Unknown measure", measureName)
  ELSE LET measureDef == demoMeasures[measureName]
       IN  IF measureDef.table \notin DOMAIN d
           THEN Failed("Missing rows for table", measureDef.table)
           ELSE Value(Aggregate(measureDef.aggregation,
                                applyContextToFact(d[measureDef.table], filter, grain),
                                measureDef.column))

\* def.eval(ctx) for a metric built by one of the constructors, and
\* evaluateDependencies(deps, ctx) with the values found so far
RECURSIVE EvalMetricDef(_, _, _, _)
RECURSIVE evaluateDependencies(_, _, _, _, _)
EvalMetricDef(def, filter, grain, d) ==
  CASE def.ctor = "simpleMetric" ->
         evaluateMeasure(def.measure, filter,
                         IF "grain" \in DOMAIN def THEN def.grain ELSE grain, d)
    [] def.ctor = "expressionMetric" ->
         IF def.table \notin DOMAIN d THEN Failed("Missing rows for table", def.table)
         ELSE LET rows == d[def.table]
                  g == IF "grain" \in DOMAIN def THEN def.grain ELSE FirstRowKeys(rows)
              IN  Value(ApplyExpression(def.expression, applyContextToFact(rows, filter, g),
                                        d, filter))
    [] def.ctor = "derivedMetric" ->
         With(evaluateDependencies(def.deps, filter, grain, d, <<>>),
           LAMBDA deps :
             IF deps.st = "error" THEN deps ELSE Value(ApplyCombine(def.combine, deps.v)))
    [] def.ctor = "contextTransformMetric" ->
         IF def.baseMetric \notin DOMAIN fnMetrics
         THEN Failed("Unknown base metric", def.baseMetric)
         ELSE EvalMetricDef(fnMetrics[def.baseMetric], ApplyTransform(def.transform, filter),
                            grain, d)

evaluateDependencies(deps, filter, grain, d, depValues) ==
  IF deps = <<>> THEN Value(depValues)
  ELSE IF Head(deps) \notin DOMAIN fnMetrics
       THEN Failed("Unknown dependency metric", Head(deps))
       ELSE With(EvalMetricDef(fnMetrics[Head(deps)], filter, grain, d),
              LAMBDA r :
                IF r.st = "error" THEN r
                ELSE evaluateDependencies(Tail(deps), filter, grain, d,
                                          ObjSet(depValues, Head(deps), r.v)))

(***************************************************************************)
(* Formatting and the query runner.                                        *)
(***************************************************************************)
\* n.toFixed(digits) for digits in 0..2: the decimal text is modelled by the
\* integer it shows after scaling by 10^digits (ties round away from zero)
ToFixed(v, digits) ==
  LET scale == IF digits = 0 THEN 1 ELSE IF digits = 1 THEN 10 ELSE 100
      num == Abs(v.n) * scale
      q == (2 * num + v.d) \div (2 * v.d)
  IN  [scaled |-> IF v.n < 0 THEN 0 - q ELSE q, digits |-> digits]

\* a formatter that writes null, undefined and NaN as the number 0
formatValueOfZero(value, format) ==
  LET n == IF IsNum(value) THEN value ELSE Num(0)
  IN  CASE format = "currency" -> Str(<<"$", ToFixed(n, 2), "">>)
        [] format = "integer" -> Str(<<"", ToFixed(n, 0), "">>)
        [] format = "percent" -> Str(<<"", ToFixed(n, 2), "%">>)
        [] OTHER -> Str(<<"", n, "">>)

\* formatValue(value, format); `format` is "" when the metric has none
formatValue(value, format) ==
  IF IsNullish(value) \/ value.t = "nan" THEN Null
  ELSE LET n == ToNumber(value)
       IN  CASE format = "currency" -> Str(<<"$", ToFixed(n, 2), "">>)
             [] format = "integer" -> Str(<<"", ToFixed(n, 0), "">>)
             [] format = "percent" -> Str(<<"", ToFixed(n, 2), "%">>)
             [] OTHER -> Str(<<"", n, "">>)

\* pick(obj, keys)
RECURSIVE pick(_, _)
pick(obj, keys) ==
  IF keys = <<>> THEN <<>>
  ELSE LET k == Head(keys)
           rest == pick(obj, Tail(keys))
       IN  IF RowGet(obj, k).t # "undef"
           THEN Spread(<<<<k, RowGet(obj, k)>>>>, rest)
           ELSE rest

\* a grouping that keeps one key per row, repeated or not
RECURSIVE GroupKeysPerRow(_, _, _)
GroupKeysPerRow(rows, attrColumns, seen) ==
  IF rows = <<>> THEN seen
  ELSE GroupKeysPerRow(Tail(rows), attrColumns,
                       Append(seen, JsonEntries(pick(Head(rows), attrColumns))))

\* rows.groupBy(r => JSON.stringify(pick(r, attrColumns))): the distinct keys
\* in first-seen order
RECURSIVE GroupKeys(_, _, _)
GroupKeys(rows, attrColumns, seen) ==
  IF rows = <<>> THEN seen
  ELSE LET k == JsonEntries(pick(Head(rows), attrColumns))
       IN  GroupKeys(Tail(rows), attrColumns,
                     IF \E i \in 1..Len(seen) : seen[i] = k THEN seen
                     ELSE Append(seen, k))

\* relatedTable.find(r => r[relatedKey] === rawValue): the rows that qualify
FindRelated(relatedTable, relatedKey, rawValue) ==
  SelectSeq(relatedTable, LAMBDA r : StrictEq(RowGet(r, relatedKey), rawValue))

\* displayName.replace(/Name$/, 's') for the display names of the registry
RelatedTableName(displayName) ==
  CASE displayName = "regionName" -> "regions"
    [] displayName = "productName" -> "products"

\* the attribute part of one output row
RECURSIVE AttributeOutputs(_, _, _, _, _)
AttributeOutputs(attrNames, i, keyObj, db, outputRow) ==
  IF i > Len(attrNames) THEN outputRow
  ELSE LET attrDef == demoAttributes[attrNames[i]]
           rawValue == ObjGet(keyObj, attrDef.column)
           withValue == ObjSet(outputRow, attrNames[i], rawValue)
           relatedTableName ==
             IF "displayName" \in DOMAIN attrDef
             THEN RelatedTableName(attrDef.displayName) ELSE ""
           found ==
             IF relatedTableName \in DOMAIN db
             THEN FindRelated(db[relatedTableName], attrDef.column, rawValue)
             ELSE <<>>
           withName ==
             IF found # <<>> /\ RowGet(found[1], "name").t = "str"
             THEN ObjSet(withValue, attrDef.displayName, found[1].name)
             ELSE withValue
       IN  AttributeOutputs(attrNames, i + 1, keyObj, db, withName)

\* the loop over the requested metrics of one group, from position i on
RECURSIVE GroupMetrics(_, _, _, _, _, _)
GroupMetrics(metrics, i, db, rowContext, cache, metricValues) ==
  IF i > Len(metrics) THEN Returned(metricValues, cache, <<>>)
  ELSE With(evaluateMetric(metrics[i], db, rowContext, cache, TRUE, MaxStack),
         LAMBDA r :
           IF r.st = "error" THEN r
           ELSE LET def == demoMetrics[metrics[i]]
                    format == IF "format" \in DOMAIN def THEN def.format ELSE ""
                IN  With(GroupMetrics(metrics, i + 1, db, rowContext, r.cache,
                                      ObjSet(metricValues, metrics[i],
                                             formatValue(r.v, format))),
                      LAMBDA rest : [rest EXCEPT !.log = r.log \o @]))

\* the loop over the groups, from position i on
RECURSIVE QueryGroups(_, _, _, _, _, _)
QueryGroups(groups, i, db, options, cache, result) ==
  IF i > Len(groups) THEN Returned(result, cache, <<>>)
  ELSE LET keyObj == groups[i]
           rowContext == Spread(options.filters, keyObj)
           outputRow == AttributeOutputs(options.attributes, 1, keyObj, db, <<>>)
       IN  With(GroupMetrics(options.metrics, 1, db, rowContext, cache, <<>>),
             LAMBDA m :
               IF m.st = "error" THEN m
               ELSE With(QueryGroups(groups, i + 1, db, options, m.cache,
                                     Append(result, Spread(outputRow, m.v))),
                      LAMBDA rest : [rest EXCEPT !.log = m.log \o @]))

\* a validation that looks at every attribute name before it looks at the
\* primary table
ValidateAttributesFirst(db, attrNames) ==
  LET unknown == {i \in 1..Len(attrNames) : attrNames[i] \notin DOMAIN demoAttributes}
  IN
  IF Len(attrNames) = 0
  THEN Thrown("At least one attribute is required", "", EmptyCache, <<>>)
  ELSE IF unknown # {}
  THEN Thrown("Unknown attribute",
              attrNames[CHOOSE i \in unknown : \A j \in unknown : i <= j],
              EmptyCache, <<>>)
  ELSE IF demoAttributes[attrNames[1]].table \notin DOMAIN db
  THEN Thrown("Missing rows for table", demoAttributes[attrNames[1]].table,
              EmptyCache, <<>>)
  ELSE [st |-> "valid"]

\* the checks runQuery makes before it filters, groups and evaluates, in the
\* order of the code: the error thrown, or none
ValidateRequest(db, attrNames) ==
  LET unknown == {i \in 1..Len(attrNames) : attrNames[i] \notin DOMAIN demoAttributes}
  IN
  IF Len(attrNames) = 0
  THEN Thrown("At least one attribute is required", "", EmptyCache, <<>>)
  ELSE IF attrNames[1] \notin DOMAIN demoAttributes
  THEN Thrown("Unknown attribute", attrNames[1], EmptyCache, <<>>)
  ELSE IF demoAttributes[attrNames[1]].table \notin DOMAIN db
  THEN Thrown("Missing rows for table", demoAttributes[attrNames[1]].table,
              EmptyCache, <<>>)
  ELSE IF unknown # {}
  THEN Thrown("Unknown attribute",
              attrNames[CHOOSE i \in unknown : \A j \in unknown : i <= j],
              EmptyCache, <<>>)
  ELSE [st |-> "valid"]

\* one Map kept by the engine and reused by every top-level call
NewCacheKept(left) == left

\* new Map(): the cache a top-level call starts with, whatever earlier calls left
NewCache(left) == EmptyCache

\* runQuery(db, tableRegistry, attributeRegistry, measureRegistry,
\* metricRegistry, transforms, options); `left` is the Map the previous call
\* left behind; a call that fails before it creates its Map has none (empty)
runQuery(db, options, left) ==
  LET attrNames == options.attributes
  IN
  With(ValidateRequest(db, attrNames), LAMBDA invalid :
  IF invalid.st = "error" THEN invalid
  ELSE
    LET tableRows == db[demoAttributes[attrNames[1]].table]
        tableGrain == FirstRowKeys(tableRows)
        filtered == applyContextToFact(tableRows, options.filters, tableGrain)
        attrColumns == [i \in 1..Len(attrNames) |-> demoAttributes[attrNames[i]].column]
        groups == GroupKeys(filtered, attrColumns, <<>>)
    IN  QueryGroups(groups, 1, db, options, NewCache(left), <<>>))

\* evaluateMetrics(metricNames, db, metricRegistry, context, transforms,
\* measureRegistry): the loop from position i on
RECURSIVE EvaluateEach(_, _, _, _, _, _, _)
EvaluateEach(metricNames, i, db, context, cache, hasMeasures, results) ==
  IF i > Len(metricNames) THEN Returned(results, cache, <<>>)
  ELSE With(evaluateMetric(metricNames[i], db, context, cache, hasMeasures, MaxStack),
         LAMBDA r :
           IF r.st = "error" THEN r
           ELSE With(EvaluateEach(metricNames, i + 1, db, context, r.cache,
                                  hasMeasures,
                                  ObjSet(results, metricNames[i], r.v)),
                  LAMBDA rest : [rest EXCEPT !.log = r.log \o @]))

evaluateMetrics(metricNames, db, context, hasMeasures, left) ==
  EvaluateEach(metricNames, 1, db, context, NewCache(left), hasMeasures, <<>>)

(***************************************************************************)
(* Inputs of the calls.                                                    *)
(***************************************************************************)
Ctx2025 == << <<"year", Num(2025)>> >>
CtxJan2025 == << <<"year", Num(2025)>>, <<"month", Num(1)>> >>
CtxFeb2025 == << <<"year", Num(2025)>>, <<"month", Num(2)>> >>
CtxFeb2025Swapped == << <<"month", Num(2)>>, <<"year", Num(2025)>> >>
CtxNA2025 == << <<"year", Num(2025)>>, <<"regionId", Str("NA")>> >>
Ctx2099 == << <<"year", Num(2099)>> >>
CtxAllKeys ==
  << <<"year", Num(2025)>>, <<"month", Num(1)>>,
     <<"regionId", Str("NA")>>, <<"productId", Num(1)>> >>
CtxRange == << <<"year", Num(2025)>>, <<"month", Obj(<<<<"lte", Num(1)>>>>)>> >>

\* the arguments of formatValue: numbers, null, undefined and NaN, under the
\* three known tags, an unknown tag and no tag
FormattedValues ==
  { Null, Undef, NaN, Num(0), Num(5), Num(0 - 3), Rat(123456, 100), Rat(4567, 100),
    Rat(1, 3), Rat(0 - 5, 2) }

FormatTags == { "currency", "integer", "percent", "unknown", "" }

Ctx2024 == << <<"year", Num(2024)>> >>
Ctx2026 == << <<"year", Num(2026)>> >>

\* the filters of the evals of functional metrics
EvalContexts == { <<>>, Ctx2024, Ctx2025, Ctx2026, CtxFeb2025, CtxNA2025, Ctx2099 }

Contexts ==
  { <<>>, Ctx2025, CtxJan2025, CtxFeb2025, CtxFeb2025Swapped, CtxNA2025, Ctx2099,
    CtxAllKeys, CtxRange }

\* the calls made with the caller-held cache
SessionMetrics ==
  { "revenue", "pricePerUnit", "salesVsBudgetPct", "salesAmountYTD",
    "salesVsBudgetPctYTD", "noDependency" }

\* a year that is no number (what lastYear makes of a year given as a range)
\* and a year left open with null
CtxYearNaN == << <<"year", NaN>> >>
CtxYearNull == << <<"year", Null>> >>

SessionContexts == { CtxFeb2025, CtxFeb2025Swapped, CtxYearNaN, CtxYearNull }

\* the requests of the top-level calls
AttributeLists ==
  { <<>>, <<"regionId">>, <<"regionId", "productId">>, <<"year", "month">>,
    <<"unknownAttr">>, <<"year", "unknownAttr">>, <<"unknownAttr", "year">>,
    <<"budgetYear">>, <<"forecastYear", "unknownAttr">>, <<"productId", "forecastYear">> }

MetricLists ==
  { <<>>, <<"revenue">>, <<"unknownMetric">>, <<"revenue", "unknownMetric">>,
    <<"revenue", "budget", "salesVsBudgetPct">>,
    <<"salesVsBudgetPctYTD", "salesAmountYTD">>, <<"noMeasure", "unknownMetric">>,
    <<"pricePerUnit", "orders", "revenueByRegion">> }

QueryFilters == { <<>>, CtxFeb2025, Ctx2099 }

\* the requests made one after the other, each with its own cache
QueryAttributeLists == { <<"regionId">>, <<"year", "month">>, <<"unknownAttr">> }

QueryMetricLists ==
  { <<"revenue">>, <<"revenue", "unknownMetric">>,
    <<"revenue", "budget", "salesVsBudgetPct">>,
    <<"salesVsBudgetPctYTD", "salesAmountYTD">> }

DefaultCallMetrics == { "revenue", "salesVsBudgetPctYTD", "noDependency" }

Grains == SUBSET {"year", "month", "regionId", "productId"}

(***************************************************************************)
(* State.                                                                  *)
(***************************************************************************)
VARIABLES
  db,          \* InMemoryDb.tables
  added,       \* rows appended so far
  cache,       \* the Map a caller passes to evaluateMetric, call after call
  calls,       \* evaluateMetric calls made with that Map
  returned,    \* history: (metric, context) -> value first returned with that Map
  queryCache,  \* the Map created by the latest top-level call (empty if none)
  heap,        \* the arrays and filter objects the query builders refer to
  builders,    \* the QueryBuilderImpl objects created so far
  last         \* the latest call: its arguments and its outcome

vars == <<db, added, cache, calls, returned, queryCache, heap, builders, last>>

Init ==
  /\ db \in InitialDbs
  /\ added = 0
  /\ cache = EmptyCache
  /\ calls = 0
  /\ returned = [k \in {} |-> Null]
  /\ heap = <<>>
  /\ builders = <<>>
  /\ queryCache = EmptyCache
  /\ last = [op |-> "init"]

\* the caller appends a row to the sales table (the engine never does)
AddRow ==
  /\ added < MaxAdded
  /\ \E r \in NewSalesRows : db' = [db EXCEPT !.sales = Append(@, r)]
  /\ added' = added + 1
  /\ last' = [op |-> "addRow"]
  /\ UNCHANGED <<cache, calls, returned, queryCache, heap, builders>>

\* evaluateMetric(m, db, metrics, c, transforms, cache, measures)
EvaluateMetric ==
  /\ calls < MaxCalls
  /\ \E m \in SessionMetrics, c \in SessionContexts :
       \E out \in { evaluateMetric(m, db, c, cache, TRUE, MaxStack) } :
       LET seen == <<m, c>> \in DOMAIN returned
       IN  /\ cache' = out.cache
           /\ returned' =
                IF out.st = "ok" /\ ~seen
                THEN [k \in DOMAIN returned \cup {<<m, c>>} |->
                        IF k = <<m, c>> THEN out.v ELSE returned[k]]
                ELSE returned
           /\ last' = [op |-> "evaluateMetric", metric |-> m, context |-> c,
                       hasMeasures |-> TRUE, before |-> cache, seen |-> seen,
                       prior |-> IF seen THEN returned[<<m, c>>] ELSE Undef,
                       out |-> out]
  /\ calls' = calls + 1
  /\ UNCHANGED <<db, added, queryCache, heap, builders>>

Next == AddRow \/ EvaluateMetric

Spec == Init /\ [][Next]_vars

(***************************************************************************)
(* Top-level calls: each creates its own cache.                            *)
(***************************************************************************)
\* the elements of a finite set, one after the other
RECURSIVE Listed(_)
Listed(S) ==
  IF S = {} THEN <<>>
  ELSE LET x == CHOOSE x \in S : TRUE IN <<x>> \o Listed(S \ {x})

\* the objects the caller holds and passes by reference: the filter context
\* objects first, then the request objects, whose filters property refers to
\* one of the context objects
ContextRefs == 1..Cardinality(QueryFilters)

CallerObjects ==
  Listed(QueryFilters)
    \o Listed([attributes : QueryAttributeLists, filters : ContextRefs,
               metrics : QueryMetricLists])

RequestRefs == (Cardinality(QueryFilters) + 1)..Len(CallerObjects)

\* const { attributes, filters = {}, metrics } = options
OptionsOf(h, r) ==
  [attributes |-> h[r].attributes, filters |-> h[h[r].filters],
   metrics |-> h[r].metrics]

\* a runQuery that narrows the fact rows in place instead of building a new
\* sequence of rows
RunQueryFilteringInPlace ==
  /\ \E r \in RequestRefs :
       LET options == OptionsOf(heap, r)
       IN  \E out \in { runQuery(db, options, queryCache) } :
           /\ queryCache' = out.cache
           /\ db' = [db EXCEPT !.sales =
                       applyContextToFact(@, options.filters,
                                          {"year", "month", "regionId"})]
           /\ last' = [op |-> "runQuery", options |-> options,
                       warm |-> queryCache # EmptyCache, out |-> out]
  /\ UNCHANGED <<added, cache, calls, returned, heap, builders>>

\* runQuery(db, tables, attributes, measures, metrics, transforms, options)
RunQuery ==
  /\ \E r \in RequestRefs :
       LET options == OptionsOf(heap, r)
       IN  \E out \in { runQuery(db, options, queryCache) } :
           /\ queryCache' = out.cache
           /\ last' = [op |-> "runQuery", options |-> options,
                       warm |-> queryCache # EmptyCache, out |-> out]
  /\ UNCHANGED <<db, added, cache, calls, returned, heap, builders>>

\* evaluateMetrics(names, db, metrics, c, transforms, measures)
EvaluateMetrics ==
  /\ \E ms \in QueryMetricLists, c \in ContextRefs :
       \E out \in { evaluateMetrics(ms, db, heap[c], TRUE, queryCache) } :
           /\ queryCache' = out.cache
           /\ last' = [op |-> "evaluateMetrics", metrics |-> ms,
                       context |-> heap[c],
                       warm |-> queryCache # EmptyCache, out |-> out]
  /\ UNCHANGED <<db, added, cache, calls, returned, heap, builders>>

\* evaluateMetric(m, db, metrics, c, transforms, undefined, measures): the
\* cache parameter takes its default value, a new Map
EvaluateMetricDefault ==
  /\ \E m \in DefaultCallMetrics, c \in ContextRefs :
       \E out \in { evaluateMetric(m, db, heap[c], NewCache(queryCache), TRUE, MaxStack) } :
           /\ queryCache' = out.cache
           /\ last' = [op |-> "evaluateMetricDefault", metric |-> m,
                       context |-> heap[c],
                       warm |-> queryCache # EmptyCache, out |-> out]
  /\ UNCHANGED <<db, added, cache, calls, returned, heap, builders>>

QueryInit ==
  /\ db \in { demoDb, emptySalesDb }
  /\ added = 0
  /\ cache = EmptyCache
  /\ calls = 0
  /\ returned = [k \in {} |-> Null]
  /\ heap = CallerObjects
  /\ builders = <<>>
  /\ queryCache = EmptyCache
  /\ last = [op |-> "init"]

QueryNext == AddRow \/ RunQuery \/ EvaluateMetrics \/ EvaluateMetricDefault

QuerySpec == QueryInit /\ [][QueryNext]_vars

(***************************************************************************)
(* Single calls of the exported functions on inputs drawn at the start.    *)
(***************************************************************************)
FunctionInputs ==
  [fn : {"evaluateMetric"}, metric : MetricNames, context : Contexts,
   hasMeasures : BOOLEAN]
  \cup
  [fn : {"applyContextToFact"}, table : {"sales", "budget"}, context : Contexts,
   grain : Grains]
  \cup
  [fn : {"runQuery"}, attributes : AttributeLists, filters : QueryFilters,
   metrics : MetricLists]
  \cup
  [fn : {"eval"}, metric : DOMAIN fnMetrics, context : EvalContexts, grain : Grains]
  \cup
  [fn : {"formatValue"}, value : FormattedValues, format : FormatTags]

FunctionInit ==
  /\ db \in InitialDbs
  /\ added = 0
  /\ cache = EmptyCache
  /\ calls = 0
  /\ returned = [k \in {} |-> Null]
  /\ heap = <<>>
  /\ builders = <<>>
  /\ queryCache = EmptyCache
  /\ \E in \in FunctionInputs : last = [op |-> "input", in |-> in]

\* evaluateMetric(m, db, metrics, c, transforms, new Map(), measures?)
EvaluateFresh ==
  /\ last.op = "input"
  /\ last.in.fn = "evaluateMetric"
  /\ last' = [op |-> "evaluateMetric", metric |-> last.in.metric,
              context |-> last.in.context, hasMeasures |-> last.in.hasMeasures,
              before |-> EmptyCache, seen |-> FALSE, prior |-> Undef,
              out |-> evaluateMetric(last.in.metric, db, last.in.context, EmptyCache,
                                     last.in.hasMeasures, MaxStack)]
  /\ UNCHANGED <<db, added, cache, calls, returned, queryCache, heap, builders>>

\* applyContextToFact(rows, c, g) on the rows of a table
ApplyContextToFact ==
  /\ last.op = "input"
  /\ last.in.fn = "applyContextToFact"
  /\ last.in.table \in DOMAIN db
  /\ last' = [op |-> "applyContextToFact", rows |-> db[last.in.table],
              context |-> last.in.context, grain |-> last.in.grain,
              out |-> applyContextToFact(db[last.in.table], last.in.context,
                                         last.in.grain)]
  /\ UNCHANGED <<db, added, cache, calls, returned, queryCache, heap, builders>>

\* runQuery(db, tables, attributes, measures, metrics, transforms, options)
RunQueryOnce ==
  /\ last.op = "input"
  /\ last.in.fn = "runQuery"
  /\ LET options == [attributes |-> last.in.attributes, filters |-> last.in.filters,
                     metrics |-> last.in.metrics]
     IN  last' = [op |-> "runQueryOnce", options |-> options,
                  out |-> runQuery(db, options, EmptyCache)]
  /\ UNCHANGED <<db, added, cache, calls, returned, queryCache, heap, builders>>

\* metricRegistry[m].eval({ filter, grain, db, measureRegistry, metricRegistry })
EvalFunctional ==
  /\ last.op = "input"
  /\ last.in.fn = "eval"
  /\ \E out \in { EvalMetricDef(fnMetrics[last.in.metric], last.in.context,
                                 last.in.grain, db) } :
       last' = [op |-> "eval", metric |-> last.in.metric, context |-> last.in.context,
                grain |-> last.in.grain, out |-> out]
  /\ UNCHANGED <<db, added, cache, calls, returned, queryCache, heap, builders>>

\* formatValue(value, format)
FormatValue ==
  /\ last.op = "input"
  /\ last.in.fn = "formatValue"
  /\ last' = [op |-> "formatValue", value |-> last.in.value, format |-> last.in.format,
              out |-> formatValue(last.in.value, last.in.format)]
  /\ UNCHANGED <<db, added, cache, calls, returned, queryCache, heap, builders>>

FunctionNext ==
  EvaluateFresh \/ ApplyContextToFact \/ RunQueryOnce \/ EvalFunctional \/ FormatValue

FunctionSpec == FunctionInit /\ [][FunctionNext]_vars

(***************************************************************************)
(* The query builder: engine.query() and the methods of QueryBuilderImpl.  *)
(* A builder's spec object holds references to its attributes array, its   *)
(* metrics array and its filters object, which live in the heap.           *)
(***************************************************************************)
\* the arguments of the builder calls
AttributeArgs == { <<"regionId">>, <<"year", "month">> }

MetricArgs == { <<"revenue">> }

WhereArgs == { CtxFeb2025, << <<"month", Num(1)>> >> }

\* a new object or array: the heap with it, its reference being the new length
Alloc(h, value) == Append(h, value)

\* the arrays and the object a spec object refers to
Deref(h, spec) ==
  [attributes |-> h[spec.attributes], metrics |-> h[spec.metrics],
   filters |-> h[spec.filters]]

\* an addAttributes that pushes onto the receiver's array and returns the
\* receiver's spec
addAttributesInPlace(h, spec, attrs) ==
  [heap |-> [h EXCEPT ![spec.attributes] = @ \o attrs], spec |-> spec]

\* addAttributes(...attrs): { ...this.spec, attributes: [...this.spec.attributes, ...attrs] }
addAttributes(h, spec, attrs) ==
  [heap |-> Alloc(h, h[spec.attributes] \o attrs),
   spec |-> [spec EXCEPT !.attributes = Len(h) + 1]]

\* addMetrics(...metrics): { ...this.spec, metrics: [...this.spec.metrics, ...metrics] }
addMetrics(h, spec, metrics) ==
  [heap |-> Alloc(h, h[spec.metrics] \o metrics),
   spec |-> [spec EXCEPT !.metrics = Len(h) + 1]]

\* a merge in which the filters the builder already has win
MergeKeepingEarlier(filters, partial) == Spread(partial, filters)

\* { ...this.spec.filters, ...partial }
MergeFilters(filters, partial) == Spread(filters, partial)

\* where(partial): { ...this.spec, filters: { ...this.spec.filters, ...partial } }
where(h, spec, partial) ==
  [heap |-> Alloc(h, MergeFilters(h[spec.filters], partial)),
   spec |-> [spec EXCEPT !.filters = Len(h) + 1]]

\* new QueryBuilderImpl(db, model, spec): the builder object, with the
\* history of the calls that led to it and of its specification at that time
NewBuilder(h, spec, path) == [spec |-> spec, born |-> Deref(h, spec), path |-> path]

\* engine.query(): new QueryBuilderImpl(db, model), whose constructor creates
\* { attributes: [], metrics: [], filters: {} }; a session starts with it
Query ==
  /\ builders = <<>>
  /\ heap' = heap \o << <<>>, <<>>, <<>> >>
  /\ builders' = Append(builders,
                        NewBuilder(heap',
                                   [attributes |-> Len(heap) + 1,
                                    metrics |-> Len(heap) + 2,
                                    filters |-> Len(heap) + 3],
                                   <<>>))
  /\ last' = [op |-> "query"]
  /\ UNCHANGED <<db, added, cache, calls, returned, queryCache>>

\* the new builder a method of builder b returns, given the heap and spec the
\* method made
Derive(b, made, call) ==
  /\ heap' = made.heap
  /\ builders' = Append(builders,
                        NewBuilder(made.heap, made.spec, Append(builders[b].path, call)))
  /\ last' = [op |-> call.op, builder |-> b]
  /\ UNCHANGED <<db, added, cache, calls, returned, queryCache>>

AddAttributes ==
  /\ Len(builders) < MaxBuilders
  /\ \E b \in 1..Len(builders), attrs \in AttributeArgs :
       Derive(b, addAttributes(heap, builders[b].spec, attrs),
              [op |-> "addAttributes", arg |-> attrs])

AddMetrics ==
  /\ Len(builders) < MaxBuilders
  /\ \E b \in 1..Len(builders), metrics \in MetricArgs :
       Derive(b, addMetrics(heap, builders[b].spec, metrics),
              [op |-> "addMetrics", arg |-> metrics])

Where ==
  /\ Len(builders) < MaxBuilders
  /\ \E b \in 1..Len(builders), partial \in WhereArgs :
       Derive(b, where(heap, builders[b].spec, partial),
              [op |-> "where", arg |-> partial])

\* build() and run() read the builders and change nothing, so reading twice in
\* a row reaches no state that reading once does not reach
Observed == last.op \in {"build", "run"}

\* build(): { ...this.spec }
Build ==
  /\ ~Observed
  /\ \E b \in 1..Len(builders) :
       last' = [op |-> "build", builder |-> b, out |-> Deref(heap, builders[b].spec)]
  /\ UNCHANGED <<db, added, cache, calls, returned, queryCache, heap, builders>>

\* run(): runQuery(this.db, ...this.model, { attributes, filters, metrics })
Run ==
  /\ ~Observed
  /\ \E b \in 1..Len(builders) :
       \E out \in { runQuery(db, Deref(heap, builders[b].spec), EmptyCache) } :
         last' = [op |-> "run", builder |-> b, out |-> out]
  /\ UNCHANGED <<db, added, cache, calls, returned, queryCache, heap, builders>>

BuilderInit ==
  /\ db = demoDb
  /\ added = 0
  /\ cache = EmptyCache
  /\ calls = 0
  /\ returned = [k \in {} |-> Null]
  /\ heap = <<>>
  /\ builders = <<>>
  /\ queryCache = EmptyCache
  /\ last = [op |-> "init"]

BuilderNext == Query \/ AddAttributes \/ AddMetrics \/ Where \/ Build \/ Run

BuilderSpec == BuilderInit /\ [][BuilderNext]_vars

(***************************************************************************)
(* Single calls of the context transforms and of the filter matcher on     *)
(* inputs drawn at the start.  The context given to a transform is an      *)
(* object in the heap; the transform returns a reference.                  *)
(***************************************************************************)
\* zero or one property named k
OptionalEntry(k, values) == { <<>> } \cup { << <<k, v>> >> : v \in values }

YearEntries == OptionalEntry("year", {Num(2025), Null, Undef})

MonthEntries ==
  OptionalEntry("month", {Num(6), Num(2), Null, Undef, Obj(<< <<"lte", Num(2)>> >>)})

RegionEntries == OptionalEntry("regionId", {Str("NA")})

\* contexts with year and month each present, null, undefined or absent, in
\* both key orders
TransformContexts ==
  { y \o m \o r : y \in YearEntries, m \in MonthEntries, r \in RegionEntries }
  \cup { m \o y \o r : y \in YearEntries, m \in MonthEntries, r \in RegionEntries }

BaseTransforms == { [fn |-> "ytd"], [fn |-> "lastYear"], [fn |-> "priorMonth"] }

\* the lists of at most three base transforms
TransformLists ==
  { <<>> } \cup { <<a>> : a \in BaseTransforms }
  \cup { <<a, b>> : a \in BaseTransforms, b \in BaseTransforms }
  \cup { <<a, b, c>> : a \in BaseTransforms, b \in BaseTransforms, c \in BaseTransforms }

TransformValues ==
  BaseTransforms \cup { [fn |-> "rollingMonths", count |-> 3] }
  \cup { composeTransforms(ts) : ts \in TransformLists }

\* values of a row's column, undefined when the row has no such column
MatchedValues ==
  { Num(0), Num(1), Num(4), Num(5), Num(6), Num(7), Num(10), Num(11),
    Str("NA"), Null, Undef }

ScalarFilters == { Num(5), Num(2025), Str("NA"), Str("5"), Null, Undef }

RangeFilters ==
  { Obj(a \o b \o c \o d \o e \o f) :
      a \in OptionalEntry("from", {Num(1), Null}),
      b \in OptionalEntry("to", {Num(10)}),
      c \in OptionalEntry("gte", {Num(5)}),
      d \in OptionalEntry("lte", {Num(5), Undef}),
      e \in OptionalEntry("gt", {Num(5)}),
      f \in OptionalEntry("lt", {Num(5), Num(7)}) }

(***************************************************************************)
(* Filter expression trees: compileFilter and applyFilter.                 *)
(***************************************************************************)
\* f.eq .. f.not: the nodes of a filter tree
Expr(field, op, value) == [kind |-> "expression", field |-> field, op |-> op, value |-> value]

BetweenExpr(field, from, to) ==
  [kind |-> "expression", field |-> field, op |-> "between", value |-> from, value2 |-> to]

AndOf(filters) == [kind |-> "and", filters |-> filters]
OrOf(filters) == [kind |-> "or", filters |-> filters]
NotOf(filter) == [kind |-> "not", filter |-> filter]

\* a between that leaves its upper end out
BetweenHalfOpen(fieldValue, value, value2) ==
  JsLe(value, fieldValue) /\ JsLt(fieldValue, value2)

\* fieldValue >= value && fieldValue <= value2
Between(fieldValue, value, value2) ==
  JsLe(value, fieldValue) /\ JsLe(fieldValue, value2)

\* a JS array of values
Arr(items) == [t |-> "arr", a |-> items]

\* values.includes(fieldValue): SameValueZero, under which NaN is itself
Includes(values, fieldValue) == \E i \in 1..Len(values.a) : values.a[i] = fieldValue

\* the predicate compiled from an expression node, applied to a row
Compare(filter, row) ==
  LET fieldValue == RowGet(row, filter.field)
      value == filter.value
  IN  CASE filter.op = "eq" -> StrictEq(fieldValue, value)
        [] filter.op = "lt" -> JsLt(fieldValue, value)
        [] filter.op = "lte" -> JsLe(fieldValue, value)
        [] filter.op = "gt" -> JsLt(value, fieldValue)
        [] filter.op = "gte" -> JsLe(value, fieldValue)
        [] filter.op = "between" -> Between(fieldValue, value, filter.value2)
        [] filter.op = "in" -> Includes(value, fieldValue)

\* compileFilter(filter)(row); predicates.every and predicates.some go through
\* the compiled children from the first on and stop at the first that decides
RECURSIVE compileFilter(_, _)
RECURSIVE Every(_, _)
RECURSIVE Some(_, _)
compileFilter(filter, row) ==
  CASE filter.kind = "expression" -> Compare(filter, row)
    [] filter.kind = "and" -> Every(filter.filters, row)
    [] filter.kind = "or" -> Some(filter.filters, row)
    [] filter.kind = "not" -> ~compileFilter(filter.filter, row)

Every(filters, row) ==
  IF filters = <<>> THEN TRUE
  ELSE IF ~compileFilter(Head(filters), row) THEN FALSE
  ELSE Every(Tail(filters), row)

Some(filters, row) ==
  IF filters = <<>> THEN FALSE
  ELSE IF compileFilter(Head(filters), row) THEN TRUE
  ELSE Some(Tail(filters), row)

\* applyFilter(rows, filter)
applyFilter(rows, filter) == SelectSeq(rows, LAMBDA row : compileFilter(filter, row))

\* the comparisons the trees are built from (numbers compare as numbers; a
\* missing field reads undefined, a null one null)
FilterLeaves ==
  { Expr("year", "eq", Num(2025)), Expr("regionId", "eq", Str("NA")),
    Expr("month", "lt", Num(2)), Expr("month", "lte", Num(2)),
    Expr("amount", "gt", Num(1000)), Expr("year", "gte", Num(2025)),
    BetweenExpr("amount", Num(600), Num(1000)),
    Expr("regionId", "in", Arr(<<Str("EU"), Str("APAC")>>)),
    Expr("year", "in", Arr(<<>>)) }

\* every node that can be put over the trees of S: and/or of up to two
\* children, not of one
NodesOver(S) ==
  { AndOf(<<>>), OrOf(<<>>) }
    \cup { AndOf(<<a>>) : a \in S } \cup { OrOf(<<a>>) : a \in S }
    \cup { AndOf(<<a, b>>) : a \in S, b \in S }
    \cup { OrOf(<<a, b>>) : a \in S, b \in S }
    \cup { NotOf(a) : a \in S }

\* the trees put under a further level of nodes
NestedTrees ==
  { AndOf(<<>>), OrOf(<<>>),
    BetweenExpr("amount", Num(600), Num(1000)),
    NotOf(Expr("regionId", "eq", Str("NA"))),
    AndOf(<<Expr("year", "gte", Num(2025)), Expr("month", "lte", Num(2))>>),
    OrOf(<<Expr("amount", "gt", Num(1000)), Expr("month", "lt", Num(2))>>) }

DeepTrees ==
  { NotOf(NotOf(n)) : n \in NestedTrees }
    \cup { AndOf(<<NotOf(OrOf(<<a, b>>))>>) : a \in NestedTrees, b \in NestedTrees }

FilterTrees ==
  FilterLeaves \cup NodesOver(FilterLeaves) \cup NodesOver(NestedTrees) \cup DeepTrees

\* the rows filtered: the demo sales, a sale whose year and region are null and
\* a row that has no month and no amount
FilterRows ==
  demoSales
    \o << [year |-> Null, month |-> Num(1), regionId |-> Null,
           productId |-> Num(1), quantity |-> Num(1), amount |-> Num(600)],
          [year |-> Num(2025), regionId |-> Str("NA"), productId |-> Num(2)] >>

PureInputs ==
  [fn : {"transform"}, transform : TransformValues, context : TransformContexts]
  \cup
  [fn : {"matchesFilter"}, value : MatchedValues, filter : ScalarFilters \cup RangeFilters]
  \cup
  [fn : {"applyFilter"}, filter : FilterTrees]

\* whether the transform takes its `return ctx` branch on this context
RECURSIVE ReturnsContext(_, _)
ReturnsContext(fn, ctx) ==
  CASE fn.fn = "ytd" -> IsNullish(ObjGet(ctx, "year")) \/ IsNullish(ObjGet(ctx, "month"))
    [] fn.fn = "lastYear" -> IsNullish(ObjGet(ctx, "year"))
    [] fn.fn = "priorMonth" -> IsNullish(ObjGet(ctx, "month"))
    [] fn.fn = "rollingMonths" -> IsNullish(ObjGet(ctx, "month"))
    [] fn.fn = "compose" ->
         \/ fn.of = <<>>
         \/ /\ ReturnsContext(Head(fn.of), ctx)
            /\ ReturnsContext([fn |-> "compose", of |-> Tail(fn.of)], ctx)

\* a transform that assigns its result to the properties of the context it
\* was given
CallTransformInPlace(h, c, fn) ==
  [heap |-> [h EXCEPT ![c] = ApplyTransform(fn, h[c])], ref |-> c]

\* fn(ctx) on the context object c: the heap after the call and the reference
\* returned ({ ...ctx, k: v } is a new object)
CallTransform(h, c, fn) ==
  IF ReturnsContext(fn, h[c])
  THEN [heap |-> h, ref |-> c]
  ELSE [heap |-> Alloc(h, ApplyTransform(fn, h[c])), ref |-> Len(h) + 1]

PureInit ==
  /\ db = demoDb
  /\ added = 0
  /\ cache = EmptyCache
  /\ calls = 0
  /\ returned = [k \in {} |-> Null]
  /\ builders = <<>>
  /\ queryCache = EmptyCache
  /\ \E in \in PureInputs :
       /\ last = [op |-> "input", in |-> in]
       /\ heap = IF in.fn = "transform" THEN << in.context >> ELSE <<>>

\* the call of the transform drawn on the context object drawn
Transform ==
  /\ \E made \in { CallTransform(heap, 1, last.in.transform) } :
       /\ heap' = made.heap
       /\ last' = [op |-> last.in.transform.fn, transform |-> last.in.transform,
                   given |-> heap[1],
                   ref |-> made.ref]
  /\ UNCHANGED <<db, added, cache, calls, returned, queryCache, builders>>

Ytd ==
  /\ last.op = "input"
  /\ last.in.fn = "transform"
  /\ last.in.transform.fn = "ytd"
  /\ Transform

LastYear ==
  /\ last.op = "input"
  /\ last.in.fn = "transform"
  /\ last.in.transform.fn = "lastYear"
  /\ Transform

PriorMonth ==
  /\ last.op = "input"
  /\ last.in.fn = "transform"
  /\ last.in.transform.fn = "priorMonth"
  /\ Transform

RollingMonths ==
  /\ last.op = "input"
  /\ last.in.fn = "transform"
  /\ last.in.transform.fn = "rollingMonths"
  /\ Transform

\* composeTransforms(t1, .., tn)(ctx)
Composed ==
  /\ last.op = "input"
  /\ last.in.fn = "transform"
  /\ last.in.transform.fn = "compose"
  /\ Transform

\* matchesFilter(value, filter)
MatchesFilter ==
  /\ last.op = "input"
  /\ last.in.fn = "matchesFilter"
  /\ last' = [op |-> "matchesFilter", value |-> last.in.value, filter |-> last.in.filter,
              out |-> matchesFilter(last.in.value, last.in.filter)]
  /\ UNCHANGED <<db, added, cache, calls, returned, queryCache, heap, builders>>

\* applyFilter(rows, filter).toArray()
ApplyFilter ==
  /\ last.op = "input"
  /\ last.in.fn = "applyFilter"
  /\ last' = [op |-> "applyFilter", rows |-> FilterRows, filter |-> last.in.filter,
              out |-> applyFilter(FilterRows, last.in.filter)]
  /\ UNCHANGED <<db, added, cache, calls, returned, queryCache, heap, builders>>

PureNext ==
  \/ Ytd \/ LastYear \/ PriorMonth \/ RollingMonths \/ Composed \/ MatchesFilter
  \/ ApplyFilter

PureSpec == PureInit /\ [][PureNext]_vars

(***************************************************************************)
(* Properties.                                                             *)
(***************************************************************************)
\* positions of the log at which evaluateMetric was entered
CallEvents(log) == {i \in 1..Len(log) : log[i].ev = "call"}

\* C1: once evaluateMetric(m, c) has returned v with the caller's cache, a
\* later evaluateMetric(m, c) with that cache returns v (null included) from
\* the cache: the call is a hit, no aggregation, expression, combining function
\* or transform runs, no dependency is evaluated and the cache is left as is.
C1_RepeatedCallReturnsCachedValue ==
  (last.op = "evaluateMetric" /\ last.seen) =>
    /\ last.out.st = "ok"
    /\ last.out.v = last.prior
    /\ Len(last.out.log) = 1
    /\ last.out.log[1].ev = "call"
    /\ last.out.log[1].hit
    /\ last.out.cache = last.before

\* C1 witness: a repeated call whose cached value is null, after the table
\* changed
C1_Witness ==
  /\ last.op = "evaluateMetric"
  /\ last.seen
  /\ last.prior = Null
  /\ last.out.v = Null
  /\ added > 0

\* the top-level calls, each with a cache of its own
TopLevelCall == last.op \in {"runQuery", "evaluateMetrics", "evaluateMetricDefault"}

\* the context runQuery evaluates the metrics of an output row under, rebuilt
\* from the row's attribute fields
RowContextOf(options, row) ==
  LET attrs == options.attributes
      keyObj == pick([n \in {demoAttributes[attrs[i]].column : i \in 1..Len(attrs)} |->
                        ObjGet(row, CHOOSE a \in {attrs[i] : i \in 1..Len(attrs)} :
                                      demoAttributes[a].column = n)],
                     [i \in 1..Len(attrs) |-> demoAttributes[attrs[i]].column])
  IN  Spread(options.filters, keyObj)

\* a metric evaluated on its own, with a cache nobody else has used
Alone(m, c) == evaluateMetric(m, db, c, EmptyCache, TRUE, MaxStack)

FormatOf(m) == IF "format" \in DOMAIN demoMetrics[m] THEN demoMetrics[m].format ELSE ""

\* C2: a top-level call starts from an empty cache and shares it among all its
\* evaluations: every entry of the cache it leaves was computed in this call,
\* a (metric, context) pair evaluated again in the same call is a cache hit,
\* and every value it returns is the value the metric has over the database as
\* it is now, whatever the earlier calls computed.
C2_FreshCachePerTopLevelCall ==
  TopLevelCall =>
    LET log == last.out.log
    IN  /\ \A k \in DOMAIN last.out.cache :
             \E i \in CallEvents(log) :
               ~log[i].hit /\ cacheKey(log[i].metric, log[i].context) = k
        /\ \A i, j \in CallEvents(log) :
             (i < j /\ cacheKey(log[i].metric, log[i].context)
                         = cacheKey(log[j].metric, log[j].context)) => log[j].hit
        /\ (last.op = "runQuery" /\ last.out.st = "ok") =>
             \A r \in 1..Len(last.out.v) :
               \A x \in 1..Len(last.options.metrics) :
                 LET m == last.options.metrics[x]
                 IN  ObjGet(last.out.v[r], m)
                       = formatValue(Alone(m, RowContextOf(last.options, last.out.v[r])).v,
                                     FormatOf(m))
        /\ (last.op = "evaluateMetrics" /\ last.out.st = "ok") =>
             \A x \in 1..Len(last.metrics) :
               ObjGet(last.out.v, last.metrics[x]) = Alone(last.metrics[x], last.context).v
        /\ (last.op = "evaluateMetricDefault" /\ last.out.st = "ok") =>
             last.out.v = Alone(last.metric, last.context).v

\* C2 witness: a query answered after an earlier top-level call left entries
\* in its cache and a row was appended shows the new row (NA, February 2025:
\* 950 + 100)
C2_Witness ==
  /\ last.op = "runQuery"
  /\ last.warm
  /\ added > 0
  /\ last.out.st = "ok"
  /\ \E r \in 1..Len(last.out.v) :
       /\ ObjGet(last.out.v[r], "regionId") = Str("NA")
       /\ ObjGet(last.out.v[r], "revenue")
            = Str(<<"$", [scaled |-> 105000, digits |-> 2], "">>)

\* the call under study: one evaluateMetric call with a cache of its own
FreshCall == last.op = "evaluateMetric" /\ last.before = EmptyCache

\* a metric evaluated on its own under context c, as the call under study was
Fresh(m, c) == evaluateMetric(m, db, c, EmptyCache, last.hasMeasures, MaxStack)

\* the sub-context of c that keeps the entries whose key is in g
SubContext(c, g) == SelectSeq(c, LAMBDA e : e[1] \in g)

\* the rows that satisfy every entry of the context c
RowsMatching(rows, c) ==
  SelectSeq(rows, LAMBDA r :
    \A i \in 1..Len(c) :
      IsNullish(c[i][2]) \/ matchesFilter(RowGet(r, c[i][1]), c[i][2]))

\* C3: the combining function of a Derived metric evaluated under context c
\* runs once, with a mapping that holds exactly the listed dependencies, each
\* with the value the dependency has under that same context c; every
\* dependency is evaluated under c itself, also after a ContextTransform
\* dependency was evaluated under its transformed context.
C3_CombineGetsDependenciesUnderSameContext ==
  FreshCall =>
    LET log == last.out.log
        Combines == {p \in 1..Len(log) : log[p].ev = "combine"}
    IN  /\ \A p \in Combines :
             LET deps == demoMetrics[log[p].metric].dependencies
                 c == log[p].context
             IN  /\ ObjKeys(log[p].depValues) = {deps[x] : x \in 1..Len(deps)}
                 /\ \A x \in 1..Len(deps) :
                      /\ ObjGet(log[p].depValues, deps[x]) = Fresh(deps[x], c).v
                      /\ \E q \in CallEvents(log) :
                           q < p /\ log[q].metric = deps[x] /\ log[q].context = c
                 /\ \A q \in Combines :
                      (log[q].metric = log[p].metric /\ log[q].context = c) => q = p
        /\ ( /\ last.metric \in DOMAIN demoMetrics
             /\ demoMetrics[last.metric].kind = "derived"
             /\ last.out.st = "ok" ) =>
             /\ log[Len(log)].ev = "combine"
             /\ log[Len(log)].metric = last.metric
             /\ log[Len(log)].context = last.context
             /\ last.out.v = ApplyEvalFromDeps(demoMetrics[last.metric].evalFromDeps,
                                               log[Len(log)].depValues, db, last.context)

\* C3 witness: salesVsBudgetPctYTD for February 2025: both dependencies are
\* ContextTransform metrics, and the second one still starts from month 2
C3_Witness ==
  /\ FreshCall
  /\ last.metric = "salesVsBudgetPctYTD"
  /\ last.context = CtxFeb2025
  /\ last.out.st = "ok"
  /\ \E p \in 1..Len(last.out.log) :
       /\ last.out.log[p].ev = "combine"
       /\ ObjGet(last.out.log[p].depValues, "salesAmountYTD") = Num(3500)
       /\ ObjGet(last.out.log[p].depValues, "budgetYTD") # Undef

\* C4: a ContextTransform metric T with base B and a registered transform t
\* evaluated under c ends as evaluateMetric(B, t(c)) ends: the same value, or
\* the same error; B is evaluated under t(c).  For ytdLastYear and
\* {year: 2025, month: 2} the base is evaluated under
\* {year: 2024, month: {lte: 2}}.
C4_TransformMetricIsBaseUnderTransformedContext ==
  ( /\ FreshCall
    /\ last.metric \in DOMAIN demoMetrics
    /\ demoMetrics[last.metric].kind = "contextTransform"
    /\ demoMetrics[last.metric].transform \in DOMAIN demoTransforms ) =>
    LET def == demoMetrics[last.metric]
        tc == ApplyTransform(demoTransforms[def.transform], last.context)
        base == Fresh(def.baseMeasure, tc)
        log == last.out.log
    IN  /\ last.out.st = base.st
        /\ last.out.st = "ok" => last.out.v = base.v
        /\ last.out.st = "error" =>
             last.out.msg = base.msg /\ last.out.name = base.name
        /\ Len(log) >= 3
        /\ log[2].ev = "transform" /\ log[2].out = tc
        /\ log[3].ev = "call" /\ log[3].metric = def.baseMeasure
        /\ log[3].context = tc
        /\ (last.metric = "salesAmountYTDLastYear" /\ last.context = CtxFeb2025) =>
             log[3].context =
               << <<"year", Num(2024)>>, <<"month", Obj(<< <<"lte", Num(2)>> >>)>> >>

\* C4 witness: salesAmountYTDLastYear for February 2025 is the revenue of
\* January and February 2024
C4_Witness ==
  /\ FreshCall
  /\ last.metric = "salesAmountYTDLastYear"
  /\ last.context = CtxFeb2025
  /\ db = demoDb
  /\ last.out.st = "ok"
  /\ last.out.v = Num(2250)

\* C5: applyContextToFact(rows, c, g) yields the rows that filtering with the
\* sub-context of c on the keys in g yields, in the same order: a key of c
\* outside g narrows nothing, whether its value is a scalar or a range.
C5_FilterHonoursOnlyGrainKeys ==
  last.op = "applyContextToFact" =>
    LET sub == SubContext(last.context, last.grain)
    IN  /\ last.out = RowsMatching(last.rows, sub)
        /\ last.out = applyContextToFact(last.rows, sub, ObjKeys(last.context))

\* C5 witness: a range on month is ignored by a grain without month, while the
\* year is honoured
C5_Witness ==
  /\ last.op = "applyContextToFact"
  /\ last.context = CtxRange
  /\ last.grain = {"year"}
  /\ \E i \in 1..Len(last.out) : last.out[i].month = Num(2)
  /\ Len(last.out) < Len(last.rows)

\* the table a Simple or Expression metric reads
LeafTable(def) ==
  IF def.kind = "simple" THEN demoMeasures[def.measure].table ELSE def.factTable

\* C6: a Simple or Expression metric filters the rows of its table by the
\* context keys in its own grain when it declares one, and otherwise by the
\* context keys that are fields of the table's first row; its value is its
\* value under the context without the other keys.
C6_LeafMetricHonoursItsGrain ==
  ( /\ FreshCall
    /\ last.metric \in DOMAIN demoMetrics
    /\ demoMetrics[last.metric].kind \in {"simple", "expression"}
    /\ last.out.st = "ok" ) =>
    LET def == demoMetrics[last.metric]
        rows == db[LeafTable(def)]
        g == IF "grain" \in DOMAIN def THEN def.grain
             ELSE IF rows = <<>> THEN {} ELSE DOMAIN rows[1]
        sub == SubContext(last.context, g)
    IN  /\ Len(last.out.log) = 2
        /\ last.out.log[2].rows = RowsMatching(rows, sub)
        /\ last.out.v = Fresh(last.metric, sub).v

\* C6 witness: the budget table has no month column, so the budget of January
\* 2025 is the budget of 2025
C6_Witness ==
  /\ FreshCall
  /\ last.metric = "budget"
  /\ last.context = CtxJan2025
  /\ db = demoDb
  /\ last.out.st = "ok"
  /\ last.out.v = Fresh("budget", Ctx2025).v
  /\ last.out.v # Num(0)

\* the requested metric, one of its dependencies or its base is not in the
\* metric registry
RefersToUnknownMetric(m) ==
  \/ m \notin DOMAIN demoMetrics
  \/ /\ m \in DOMAIN demoMetrics
     /\ demoMetrics[m].kind = "derived"
     /\ \E x \in 1..Len(demoMetrics[m].dependencies) :
          demoMetrics[m].dependencies[x] \notin DOMAIN demoMetrics
  \/ /\ m \in DOMAIN demoMetrics
     /\ demoMetrics[m].kind = "contextTransform"
     /\ demoMetrics[m].baseMeasure \notin DOMAIN demoMetrics

\* C7 as stated: a call that names an unregistered metric, dependency or base
\* fails with 'Unknown metric' (the measure registry being passed).
C7_UnknownNameAlwaysUnknownMetric ==
  (FreshCall /\ last.hasMeasures /\ RefersToUnknownMetric(last.metric)) =>
    last.out.st = "error" /\ last.out.msg = "Unknown metric"

\* C7: a call that names an unregistered metric, dependency or base returns
\* no value and caches none.  The error is 'Unknown metric' with the missing
\* name when the lookup of that name is reached, and it then passes through
\* every caller as it is; an error found before that lookup wins: the error
\* of an earlier dependency, or 'Unknown context transform' when the
\* transform of the metric is not registered either.
C7_UnknownMetricFailsTheCall ==
  FreshCall =>
    LET log == last.out.log
        m == last.metric
    IN  /\ RefersToUnknownMetric(m) =>
             /\ last.out.st = "error"
             /\ cacheKey(m, last.context) \notin DOMAIN last.out.cache
        /\ \A i \in CallEvents(log) :
             log[i].metric \notin DOMAIN demoMetrics =>
               /\ i = Len(log)
               /\ last.out.st = "error"
               /\ last.out.msg = "Unknown metric"
               /\ last.out.name = log[i].metric
               /\ \A k \in DOMAIN last.out.cache : k[1] # log[i].metric
        /\ m \notin DOMAIN demoMetrics =>
             last.out.msg = "Unknown metric" /\ last.out.name = m
        /\ ( /\ m \in DOMAIN demoMetrics
             /\ demoMetrics[m].kind = "contextTransform"
             /\ demoMetrics[m].baseMeasure \notin DOMAIN demoMetrics ) =>
             IF demoMetrics[m].transform \in DOMAIN demoTransforms
             THEN /\ last.out.msg = "Unknown metric"
                  /\ last.out.name = demoMetrics[m].baseMeasure
             ELSE last.out.msg = "Unknown context transform"
        /\ ( /\ m \in DOMAIN demoMetrics
             /\ demoMetrics[m].kind = "derived"
             /\ RefersToUnknownMetric(m) ) =>
             LET deps == demoMetrics[m].dependencies
                 first == CHOOSE x \in 1..Len(deps) :
                            /\ Fresh(deps[x], last.context).st = "error"
                            /\ \A y \in 1..(x - 1) :
                                 Fresh(deps[y], last.context).st = "ok"
             IN  /\ last.out.msg = Fresh(deps[first], last.context).msg
                 /\ last.out.name = Fresh(deps[first], last.context).name
                 /\ deps[first] \notin DOMAIN demoMetrics =>
                      last.out.msg = "Unknown metric" /\ last.out.name = deps[first]

\* C7 witness: the unknown base of a dependency fails the Derived metric two
\* levels up, after the first dependency was evaluated
C7_Witness ==
  /\ FreshCall
  /\ last.metric = "nestedNoBase"
  /\ last.hasMeasures
  /\ db = demoDb
  /\ last.out.st = "error"
  /\ last.out.msg = "Unknown metric"
  /\ last.out.name = "unknownMetric"
  /\ \E i \in 1..Len(last.out.log) : last.out.log[i].ev = "aggregate"

\* C8 as stated: a query whose attributes and primary table are in order and
\* whose metric list names an unregistered metric fails and returns no rows,
\* whatever the tables hold and whatever the filters are.
C8_QueryWithUnknownMetricFails ==
  ( /\ last.op = "runQueryOnce"
    /\ ValidateRequest(db, last.options.attributes).st = "valid"
    /\ \E x \in 1..Len(last.options.metrics) :
         last.options.metrics[x] \notin DOMAIN demoMetrics ) =>
    /\ last.out.st = "error"
    /\ last.options.metrics[1] \notin DOMAIN demoMetrics =>
         last.out.msg = "Unknown metric"

\* C9: a ContextTransform metric whose transform is not registered fails with
\* 'Unknown context transform' naming the transform, at the lookup: the base
\* metric is not evaluated, no context is transformed and nothing is cached
\* for the metric.
C9_UnknownTransformFailsBeforeBase ==
  FreshCall =>
    LET log == last.out.log
    IN  \A i \in CallEvents(log) :
          ( /\ log[i].metric \in DOMAIN demoMetrics
            /\ demoMetrics[log[i].metric].kind = "contextTransform"
            /\ demoMetrics[log[i].metric].transform \notin DOMAIN demoTransforms
            /\ ~log[i].hit ) =>
            /\ i = Len(log)
            /\ last.out.st = "error"
            /\ last.out.msg = "Unknown context transform"
            /\ last.out.name = demoMetrics[log[i].metric].transform
            /\ cacheKey(log[i].metric, log[i].context) \notin DOMAIN last.out.cache

\* C9 witness: noTransform has a registered base (revenue) and an unregistered
\* transform
C9_Witness ==
  /\ FreshCall
  /\ last.metric = "noTransform"
  /\ last.context = CtxFeb2025
  /\ db = demoDb
  /\ last.out.st = "error"
  /\ last.out.msg = "Unknown context transform"
  /\ Len(last.out.log) = 1

\* the attribute names of a request that are not in the attribute registry
UnknownAttributes(attrNames) ==
  {i \in 1..Len(attrNames) : attrNames[i] \notin DOMAIN demoAttributes}

\* the primary table of a request has no row data
PrimaryTableMissing(attrNames) ==
  /\ Len(attrNames) > 0
  /\ attrNames[1] \in DOMAIN demoAttributes
  /\ demoAttributes[attrNames[1]].table \notin DOMAIN db

\* C10 as stated: an empty attribute list, an unregistered attribute name at
\* any position and a primary table without rows each fail with their own
\* message.
C10_EachDefectHasItsOwnError ==
  last.op = "runQueryOnce" =>
    LET attrNames == last.options.attributes
    IN  /\ Len(attrNames) = 0 =>
             last.out.st = "error"
             /\ last.out.msg = "At least one attribute is required"
        /\ UnknownAttributes(attrNames) # {} =>
             last.out.st = "error" /\ last.out.msg = "Unknown attribute"
        /\ PrimaryTableMissing(attrNames) =>
             last.out.st = "error" /\ last.out.msg = "Missing rows for table"

\* C10: runQuery checks its request before it evaluates a metric, in this
\* order: an empty attribute list ('At least one attribute is required'), an
\* unregistered first attribute ('Unknown attribute'), a primary table
\* without row data ('Missing rows for table'), an unregistered later
\* attribute ('Unknown attribute', naming the first such name).  A request
\* with a missing primary table and an unregistered later attribute fails
\* with 'Missing rows for table'.  In each case no metric is evaluated and no
\* row is returned.
C10_RequestValidatedBeforeEvaluation ==
  last.op = "runQueryOnce" =>
    LET attrNames == last.options.attributes
        unknown == UnknownAttributes(attrNames)
        Fails(msg, name) ==
          /\ last.out.st = "error"
          /\ last.out.msg = msg
          /\ last.out.name = name
          /\ last.out.log = <<>>
          /\ last.out.cache = EmptyCache
    IN  /\ Len(attrNames) = 0 => Fails("At least one attribute is required", "")
        /\ (Len(attrNames) > 0 /\ 1 \in unknown) =>
             Fails("Unknown attribute", attrNames[1])
        /\ PrimaryTableMissing(attrNames) =>
             Fails("Missing rows for table", demoAttributes[attrNames[1]].table)
        /\ (unknown # {} /\ 1 \notin unknown /\ ~PrimaryTableMissing(attrNames)) =>
             Fails("Unknown attribute",
                   attrNames[CHOOSE i \in unknown : \A j \in unknown : i <= j])

\* C10 witness: a request with a missing primary table, an unregistered
\* second attribute and metrics to evaluate fails on the table
C10_Witness ==
  /\ last.op = "runQueryOnce"
  /\ last.options.attributes = <<"forecastYear", "unknownAttr">>
  /\ Len(last.options.metrics) > 0
  /\ last.out.st = "error"
  /\ last.out.msg = "Missing rows for table"
  /\ last.out.log = <<>>

\* a query that returned rows
QueryReturned == last.op = "runQueryOnce" /\ last.out.st = "ok"

\* the rows of the primary table of a request that pass its filters
FilteredPrimaryRows(options) ==
  LET rows == db[demoAttributes[options.attributes[1]].table]
      g == IF rows = <<>> THEN {} ELSE DOMAIN rows[1]
  IN  RowsMatching(rows, SubContext(options.filters, g))

\* the values a row has in the columns of the requested attributes
Combination(options, row) ==
  [j \in 1..Len(options.attributes) |->
     RowGet(row, demoAttributes[options.attributes[j]].column)]

\* the positions of the rows that show a combination for the first time
FirstSeen(options, rows) ==
  {k \in 1..Len(rows) :
     \A x \in 1..(k - 1) : Combination(options, rows[x]) # Combination(options, rows[k])}

\* the display-name fields of the requested attributes
DisplayNames(attrNames) ==
  {demoAttributes[attrNames[j]].displayName :
     j \in {x \in 1..Len(attrNames) : "displayName" \in DOMAIN demoAttributes[attrNames[x]]}}

\* C11: a query that returns gives one output row per distinct combination of
\* the requested attribute columns' values among the primary table's rows
\* that pass the filters, in the order in which the combinations are first
\* seen; no rows give no output rows, and without metrics an output row has
\* only attribute and display-name fields.
C11_OneRowPerCombinationInFirstSeenOrder ==
  QueryReturned =>
    LET options == last.options
        attrNames == options.attributes
        rows == FilteredPrimaryRows(options)
        firsts == FirstSeen(options, rows)
        Nth(i) == CHOOSE k \in firsts : Cardinality({x \in firsts : x <= k}) = i
    IN  /\ Len(last.out.v) = Cardinality(firsts)
        /\ \A i \in 1..Len(last.out.v) :
             /\ [j \in 1..Len(attrNames) |-> ObjGet(last.out.v[i], attrNames[j])]
                  = Combination(options, rows[Nth(i)])
             /\ {attrNames[j] : j \in 1..Len(attrNames)} \subseteq ObjKeys(last.out.v[i])
             /\ ObjKeys(last.out.v[i]) \subseteq
                  {attrNames[j] : j \in 1..Len(attrNames)}
                    \cup DisplayNames(attrNames)
                    \cup {options.metrics[x] : x \in 1..Len(options.metrics)}
        /\ rows = <<>> => last.out.v = <<>>

\* C11 witness: the regions of the sales of 2025, with no metrics: North
\* America is seen first, then Europe
C11_Witness ==
  /\ QueryReturned
  /\ db = demoDb
  /\ last.options.attributes = <<"regionId">>
  /\ last.options.metrics = <<>>
  /\ last.options.filters = CtxFeb2025
  /\ last.out.v = << << <<"regionId", Str("NA")>>, <<"regionName", Str("North America")>> >>,
                     << <<"regionId", Str("EU")>>, <<"regionName", Str("Europe")>> >> >>

\* the rows among `rows` that show the combination of the row at position k
GroupRows(options, rows, k) ==
  SelectSeq(rows, LAMBDA r : Combination(options, r) = Combination(options, rows[k]))

\* C12 as stated: in a query over the sales table that asks for revenue (a
\* Simple sum metric over that table with the default grain), the revenue of
\* every output row is the sum of the amounts of the filtered rows of its
\* group.
C12_GroupMetricCoversExactlyTheGroup ==
  ( /\ QueryReturned
    /\ demoAttributes[last.options.attributes[1]].table = "sales"
    /\ \E x \in 1..Len(last.options.metrics) : last.options.metrics[x] = "revenue" ) =>
    LET options == last.options
        rows == FilteredPrimaryRows(options)
        firsts == FirstSeen(options, rows)
        Nth(i) == CHOOSE k \in firsts : Cardinality({x \in firsts : x <= k}) = i
    IN  \A i \in 1..Len(last.out.v) :
          ObjGet(last.out.v[i], "revenue")
            = formatValue(SumColumn(GroupRows(options, rows, Nth(i)), "amount"),
                          "currency")

\* C13: no builder call changes a builder that exists: whatever was called
\* since on it or on builders derived from it, every builder still has the
\* specification it was created with, build() returns that specification
\* and run() returns what runQuery returns for it.
C13_BuildersAreImmutable ==
  /\ \A b \in 1..Len(builders) : Deref(heap, builders[b].spec) = builders[b].born
  /\ last.op = "build" => last.out = builders[last.builder].born
  /\ last.op = "run" =>
       LET ref == runQuery(db, builders[last.builder].born, EmptyCache)
       IN  /\ last.out.st = ref.st
           /\ last.out.st = "ok" => last.out.v = ref.v
           /\ last.out.st = "error" => last.out.msg = ref.msg

\* C13 witness: the base builder is run after two builders were derived from
\* it by addAttributes, and still has one attribute
C13_Witness ==
  /\ last.op = "run"
  /\ Len(builders) >= 3
  /\ last.builder = 2
  /\ builders[2].born.attributes = <<"regionId">>
  /\ builders[3].path = Append(builders[2].path,
                               [op |-> "addAttributes", arg |-> <<"year", "month">>])
  /\ last.out.st = "ok"
  /\ Len(last.out.v) = 2

\* the arguments of the calls of one method along a path, concatenated in
\* call order
RECURSIVE PathArgs(_, _)
PathArgs(path, op) ==
  IF path = <<>> THEN <<>>
  ELSE (IF Head(path).op = op THEN Head(path).arg ELSE <<>>) \o PathArgs(Tail(path), op)

\* the where() calls of a path, in call order
WhereCalls(path) == SelectSeq(path, LAMBDA call : call.op = "where")

\* the value the latest of the where() calls gives to key k
LatestWhere(wheres, k) ==
  LET holding == {i \in 1..Len(wheres) : k \in ObjKeys(wheres[i].arg)}
      i == CHOOSE j \in holding : \A x \in holding : x <= j
  IN  ObjGet(wheres[i].arg, k)

\* the key-wise merge of the where() calls of a path, written with its keys
\* in the order of a given list of keys
RECURSIVE MergedWheres(_, _)
MergedWheres(wheres, keys) ==
  IF keys = <<>> THEN <<>>
  ELSE (IF \E i \in 1..Len(wheres) : Head(keys) \in ObjKeys(wheres[i].arg)
        THEN << <<Head(keys), LatestWhere(wheres, Head(keys))>> >>
        ELSE <<>>) \o MergedWheres(wheres, Tail(keys))

\* the specification accumulated by the calls of a path
Accumulated(path) ==
  [attributes |-> PathArgs(path, "addAttributes"),
   metrics |-> PathArgs(path, "addMetrics"),
   filters |-> MergedWheres(WhereCalls(path), <<"regionId", "month", "year">>)]

\* two filter objects with the same keys and the same value under each key
SameFilters(f, g) ==
  /\ ObjKeys(f) = ObjKeys(g)
  /\ Len(f) = Cardinality(ObjKeys(f))
  /\ \A k \in ObjKeys(f) : ObjGet(f, k) = ObjGet(g, k)

\* C14: every builder holds the specification accumulated by the calls that
\* led to it (attributes and metrics concatenated in call order, filters
\* merged key by key with the later where() winning), and run() returns what
\* runQuery returns for that accumulated specification.
C14_RunEqualsRunQueryOfAccumulatedSpec ==
  /\ \A b \in 1..Len(builders) :
       LET spec == Deref(heap, builders[b].spec)
           acc == Accumulated(builders[b].path)
       IN  /\ spec.attributes = acc.attributes
           /\ spec.metrics = acc.metrics
           /\ SameFilters(spec.filters, acc.filters)
  /\ last.op = "run" =>
       LET ref == runQuery(db, Accumulated(builders[last.builder].path), EmptyCache)
       IN  /\ last.out.st = ref.st
           /\ last.out.st = "ok" => last.out.v = ref.v
           /\ last.out.st = "error" => last.out.msg = ref.msg

\* C14 witness: a builder made by where({year: 2025, month: 2}), where({month:
\* 1}) and addAttributes('regionId') is run and returns the two regions of
\* January 2025
C14_Witness ==
  /\ last.op = "run"
  /\ LET path == builders[last.builder].path
     IN  /\ Len(path) = 3
         /\ WhereCalls(path) = << [op |-> "where", arg |-> CtxFeb2025],
                                  [op |-> "where", arg |-> << <<"month", Num(1)>> >>] >>
         /\ PathArgs(path, "addAttributes") = <<"regionId">>
  /\ ObjGet(Deref(heap, builders[last.builder].spec).filters, "month") = Num(1)
  /\ last.out.st = "ok"
  /\ Len(last.out.v) = 2

\* the context a transform call returned
ReturnedContext == heap[last.ref]

\* the properties of a context other than k, in order
Without(ctx, k) == SelectSeq(ctx, LAMBDA e : e[1] # k)

RECURSIVE Nested(_, _)
Nested(transforms, c) ==
  IF transforms = <<>> THEN c
  ELSE LET n == Len(transforms)
           before == Nested(SubSeq(transforms, 1, n - 1), c)
       IN  CASE transforms[n].fn = "ytd" -> ytd(before)
             [] transforms[n].fn = "lastYear" -> lastYear(before)
             [] transforms[n].fn = "priorMonth" -> priorMonth(before)

\* C16: a composed transform returns tn(...t1(c)) for its list t1..tn, the
\* context itself for the empty list, and {year: 2024, month: {lte: 6}} for
\* composeTransforms(ytd, lastYear) on {year: 2025, month: 6}.
C16_ComposeRunsLeftToRight ==
  last.op = "compose" =>
    /\ ReturnedContext = Nested(last.transform.of, last.given)
    /\ last.transform.of = <<>> => ReturnedContext = last.given /\ last.ref = 1
    /\ ( /\ last.transform.of = << [fn |-> "ytd"], [fn |-> "lastYear"] >>
         /\ last.given = << <<"year", Num(2025)>>, <<"month", Num(6)>> >> )
       => ReturnedContext = << <<"year", Num(2024)>>,
                               <<"month", Obj(<< <<"lte", Num(6)>> >>)>> >>

\* C16 witness: composeTransforms(priorMonth, ytd, lastYear), whose result
\* depends on the order, was applied to {year: 2025, month: 6}
C16_Witness ==
  /\ last.op = "compose"
  /\ last.transform.of = << [fn |-> "priorMonth"], [fn |-> "ytd"], [fn |-> "lastYear"] >>
  /\ last.given = << <<"year", Num(2025)>>, <<"month", Num(6)>> >>
  /\ ReturnedContext = << <<"year", Num(2024)>>, <<"month", Obj(<< <<"lte", Num(5)>> >>)>> >>

\* C17: ytd applied twice gives the month and the year that ytd applied once
\* gives.
C17_YtdIsIdempotent ==
  ( /\ last.op = "compose"
    /\ last.transform.of = << [fn |-> "ytd"], [fn |-> "ytd"] >> )
  => /\ ObjGet(ReturnedContext, "month") = ObjGet(ytd(last.given), "month")
     /\ ObjGet(ReturnedContext, "year") = ObjGet(ytd(last.given), "year")

\* C18: composeTransforms(ytd, lastYear) and composeTransforms(lastYear, ytd)
\* return the same context for every context, whether year and month are
\* present or not.
C18_YtdAndLastYearCommute ==
  /\ ( /\ last.op = "compose"
       /\ last.transform.of = << [fn |-> "ytd"], [fn |-> "lastYear"] >> )
     => ReturnedContext = lastYear(ytd(last.given)) /\ ReturnedContext = ytd(lastYear(last.given))
  /\ ( /\ last.op = "compose"
       /\ last.transform.of = << [fn |-> "lastYear"], [fn |-> "ytd"] >> )
     => ReturnedContext = ytd(lastYear(last.given)) /\ ReturnedContext = lastYear(ytd(last.given))

\* C18 witness: composeTransforms(lastYear, ytd) was applied to {month: 6,
\* year: 2025, regionId: 'NA'} and changed both the year and the month
C18_Witness ==
  /\ last.op = "compose"
  /\ last.transform.of = << [fn |-> "lastYear"], [fn |-> "ytd"] >>
  /\ last.given = << <<"month", Num(6)>>, <<"year", Num(2025)>>, <<"regionId", Str("NA")>> >>
  /\ ReturnedContext = << <<"month", Obj(<< <<"lte", Num(6)>> >>)>>, <<"year", Num(2024)>>,
                          <<"regionId", Str("NA")>> >>

\* a bound of a range filter that is there: its key has a value other than
\* null and undefined
Bound(f, k) == k \in ObjKeys(f) /\ ObjGet(f, k).t \notin {"null", "undef"}

\* the whole number a value is compared as (null compares as 0); a string
\* that is no numeral and undefined compare as no number, and every
\* comparison with them is false
Comparable(v) == v.t \in {"num", "null"}

Whole(v) == IF v.t = "num" THEN v.n ELSE 0

\* value < bound, value <= bound
Below(v, w) == Comparable(v) /\ Comparable(w) /\ Whole(v) < Whole(w)

NotAbove(v, w) == Comparable(v) /\ Comparable(w) /\ Whole(v) <= Whole(w)

\* C19: matchesFilter is strict equality for a scalar filter; for an object
\* with a from or a to key it fails exactly when the value is below from or
\* above to, whatever its gte, lte, gt and lt say; for any other object it
\* fails exactly when the value is below gte, above lte, not above gt or not
\* below lt, for the bounds that are there.  For a number this is from <=
\* value <= to, and gte <= value <= lte with gt < value < lt.
C19_MatchesFilterCases ==
  last.op = "matchesFilter" =>
    LET v == last.value
        f == last.filter.o
    IN  IF last.filter.t # "obj"
        THEN last.out <=> (v.t = last.filter.t /\ v = last.filter)
        ELSE IF "from" \in ObjKeys(f) \/ "to" \in ObjKeys(f)
        THEN /\ last.out <=> ~( \/ Bound(f, "from") /\ Below(v, ObjGet(f, "from"))
                                \/ Bound(f, "to") /\ Below(ObjGet(f, "to"), v) )
             /\ v.t = "num" =>
                  ( last.out <=> /\ Bound(f, "from") => ObjGet(f, "from").n <= v.n
                                 /\ Bound(f, "to") => v.n <= ObjGet(f, "to").n )
        ELSE /\ last.out <=> ~( \/ Bound(f, "gte") /\ Below(v, ObjGet(f, "gte"))
                                \/ Bound(f, "lte") /\ Below(ObjGet(f, "lte"), v)
                                \/ Bound(f, "gt") /\ NotAbove(v, ObjGet(f, "gt"))
                                \/ Bound(f, "lt") /\ NotAbove(ObjGet(f, "lt"), v) )
             /\ v.t = "num" =>
                  ( last.out <=> /\ Bound(f, "gte") => ObjGet(f, "gte").n <= v.n
                                 /\ Bound(f, "lte") => v.n <= ObjGet(f, "lte").n
                                 /\ Bound(f, "gt") => ObjGet(f, "gt").n < v.n
                                 /\ Bound(f, "lt") => v.n < ObjGet(f, "lt").n )

\* C19 witness: 4 matches {from: 1, to: 10, gte: 5}, whose gte alone would
\* reject it
C19_Witness ==
  /\ last.op = "matchesFilter"
  /\ last.value = Num(4)
  /\ last.filter = Obj(<< <<"from", Num(1)>>, <<"to", Num(10)>>, <<"gte", Num(5)>> >>)
  /\ last.out

\* C20: a Simple metric over a sum, count or distinct measure whose table has
\* no row that matches the context (by the keys of the metric's grain) returns
\* 0, and the cache then holds 0 under the metric's key.
C20_NoMatchingRowGivesCachedZero ==
  ( /\ FreshCall
    /\ last.hasMeasures
    /\ last.metric \in DOMAIN demoMetrics
    /\ demoMetrics[last.metric].kind = "simple"
    /\ demoMetrics[last.metric].measure \in DOMAIN demoMeasures
    /\ demoMeasures[demoMetrics[last.metric].measure].aggregation
         \in {"sum", "count", "distinct"}
    /\ LeafTable(demoMetrics[last.metric]) \in DOMAIN db
    /\ LET def == demoMetrics[last.metric]
           rows == db[LeafTable(def)]
           grain == IF "grain" \in DOMAIN def THEN def.grain
                    ELSE IF rows = <<>> THEN {} ELSE DOMAIN rows[1]
       IN  RowsMatching(rows, SubContext(last.context, grain)) = <<>> )
  => /\ last.out.st = "ok"
     /\ last.out.v = Num(0)
     /\ cacheKey(last.metric, last.context) \in DOMAIN last.out.cache
     /\ last.out.cache[cacheKey(last.metric, last.context)] = Num(0)

\* C20 witness: the distinct-count metric evaluated for 2099, a year of which
\* the sales table has no row, returned 0 and left 0 in the cache
C20_Witness ==
  /\ FreshCall
  /\ last.metric = "regionsSold"
  /\ last.context = Ctx2099
  /\ db = demoDb
  /\ last.out.st = "ok"
  /\ last.out.v = Num(0)
  /\ last.out.cache = (cacheKey("regionsSold", Ctx2099) :> Num(0))

\* a zero or missing denominator
ZeroOrNull(v) == v = Num(0) \/ v.t \in {"null", "undef"}

\* the result of an eval of a functional metric under the filter and grain of
\* the eval under study
EvalOf(name) == EvalMetricDef(fnMetrics[name], last.context, last.grain, db)

\* C21: a ratio metric never returns NaN, and it returns null when its
\* denominator is 0 or null: the two sales-vs-budget metrics by their budget
\* dependency, pricePerUnit by the summed quantity of its rows, a
\* makeYoYMetric metric by its prior-year value and its current value.
C21_RatioMetricsReturnNullForZeroDenominator ==
  /\ ( /\ FreshCall
       /\ last.metric \in {"salesVsBudgetPct", "salesVsBudgetPctYTD"}
       /\ last.out.st = "ok" )
     => /\ last.out.v.t # "nan"
        /\ ZeroOrNull(Fresh(demoMetrics[last.metric].dependencies[2], last.context).v)
             => last.out.v = Null
  /\ ( /\ FreshCall
       /\ last.metric = "pricePerUnit"
       /\ last.out.st = "ok" )
     => /\ last.out.v.t # "nan"
        /\ SumColumn(RowsMatching(db.sales,
                                  SubContext(last.context,
                                             IF db.sales = <<>> THEN {}
                                             ELSE DOMAIN db.sales[1])),
                     "quantity") = Num(0)
             => last.out.v = Null
  /\ ( /\ last.op = "eval"
       /\ last.metric \in {"revenueYoY", "pricePerUnitYoY"}
       /\ last.out.st = "ok" )
     => /\ last.out.v.t # "nan"
        /\ ( \/ ZeroOrNull(EvalOf(fnMetrics[last.metric].deps[2]).v)
             \/ EvalOf(fnMetrics[last.metric].deps[1]).v = Null )
             => last.out.v = Null

\* C21 witness: salesVsBudgetPct under {year: 2099}, where the budget is 0,
\* returned null
C21_Witness ==
  /\ FreshCall
  /\ last.metric = "salesVsBudgetPct"
  /\ last.context = Ctx2099
  /\ db = demoDb
  /\ last.out.st = "ok"
  /\ last.out.v = Null
  /\ Fresh("budget", Ctx2099).v = Num(0)

\* the text of the number 0 under a format tag: "$0.00", "0", "0.00%", and
\* "0" again under an unknown tag or none
ZeroText(format) ==
  CASE format = "currency" -> Str(<<"$", [scaled |-> 0, digits |-> 2], "">>)
    [] format = "integer" -> Str(<<"", [scaled |-> 0, digits |-> 0], "">>)
    [] format = "percent" -> Str(<<"", [scaled |-> 0, digits |-> 2], "%">>)
    [] OTHER -> Str(<<"", Num(0), "">>)

\* formatValue gives null for null, undefined and NaN and a string for a
\* number, under every tag
FormatsNullAsNull ==
  last.op = "formatValue" =>
    /\ last.value.t \in {"null", "undef", "nan"} => last.out = Null
    /\ last.value.t = "num" => last.out.t = "str"

\* C22 as stated: formatValue gives null for null, undefined and NaN and a
\* string for a number under every tag, and in the rows of runQuery a metric
\* whose value is null is a null field and a metric whose value is 0 is the
\* field "0" or "$0.00".
C22_ZeroMetricIsZeroOrDollarZero ==
  /\ FormatsNullAsNull
  /\ QueryReturned =>
       \A r \in 1..Len(last.out.v) : \A i \in 1..Len(last.options.metrics) :
         LET m == last.options.metrics[i]
             value == Alone(m, RowContextOf(last.options, last.out.v[r])).v
             field == ObjGet(last.out.v[r], m)
         IN  /\ value = Null => field = Null
             /\ value = Num(0) => field \in {ZeroText("integer"), ZeroText(""),
                                             ZeroText("currency")}

\* C22 (amended): as above, with the metric whose value is 0 being the text of
\* 0 under the metric's own format: "0", "$0.00" or, for a percent metric,
\* "0.00%".
C22_NullStaysNullAndZeroIsText ==
  /\ FormatsNullAsNull
  /\ QueryReturned =>
       \A r \in 1..Len(last.out.v) : \A i \in 1..Len(last.options.metrics) :
         LET m == last.options.metrics[i]
             value == Alone(m, RowContextOf(last.options, last.out.v[r])).v
             field == ObjGet(last.out.v[r], m)
         IN  /\ value = Null => field = Null
             /\ value = Num(0) => field = ZeroText(FormatOf(m)) /\ field # Null

\* C22 witness: a query by budget year over a database without sales returned
\* rows in which pricePerUnit is null, orders is "0" and revenueByRegion is "0"
C22_Witness ==
  /\ QueryReturned
  /\ db = emptySalesDb
  /\ last.options.attributes = <<"budgetYear">>
  /\ last.options.metrics = <<"pricePerUnit", "orders", "revenueByRegion">>
  /\ Len(last.out.v) = 2
  /\ ObjGet(last.out.v[1], "pricePerUnit") = Null
  /\ ObjGet(last.out.v[1], "orders") = ZeroText("integer")
  /\ ObjGet(last.out.v[1], "revenueByRegion") = ZeroText("")

\* the metrics a metric's definition names: the dependencies of a Derived
\* metric, the base of a ContextTransform metric
DependsOn(m) ==
  IF m \notin DOMAIN demoMetrics THEN {}
  ELSE CASE demoMetrics[m].kind = "derived" ->
              {demoMetrics[m].dependencies[i] : i \in 1..Len(demoMetrics[m].dependencies)}
         [] demoMetrics[m].kind = "contextTransform" -> {demoMetrics[m].baseMeasure}
         [] OTHER -> {}

\* the metrics reached from a set of metrics in at most n steps
RECURSIVE ReachedFrom(_, _)
ReachedFrom(S, n) ==
  IF n = 0 THEN S ELSE ReachedFrom(S \cup UNION {DependsOn(x) : x \in S}, n - 1)

MetricsBelow(m) == ReachedFrom(DependsOn(m), Cardinality(MetricNames))

OnCycle(m) == m \in MetricsBelow(m)

ReachesCycle(m) == OnCycle(m) \/ \E n \in MetricsBelow(m) : OnCycle(n)

LookupErrors ==
  { "Unknown metric", "Unknown measure", "Unknown context transform",
    "Missing rows for table", "Missing rows for fact table",
    "MeasureRegistry required for simple metrics" }

\* C23: a call on an empty cache for a metric whose dependency graph has no
\* cycle ends with a value or with a lookup error; a call for a metric on a
\* cycle, or leading into one, returns no value and raises no cycle error: it
\* ends by exhausting the call stack (unless a lookup error of a dependency
\* comes first), and it leaves no cache entry for any metric on a cycle.
C23_CyclesAreNotDetected ==
  FreshCall =>
    IF ~ReachesCycle(last.metric)
    THEN last.out.st = "ok" \/ last.out.msg \in LookupErrors
    ELSE /\ last.out.st = "error"
         /\ last.out.msg \in LookupErrors \cup {"Maximum call stack size exceeded"}
         /\ last.hasMeasures => last.out.msg = "Maximum call stack size exceeded"
         /\ \A k \in DOMAIN last.out.cache : ~OnCycle(k[1])

\* C23 witness: cycleA (revenue and cycleB, whose base is cycleA under
\* lastYear) exhausted the stack under {year: 2025}; the cache holds the
\* revenue of 2025 and of 2024 and nothing else of those two years
C23_Witness ==
  /\ FreshCall
  /\ last.metric = "cycleA"
  /\ last.context = Ctx2025
  /\ last.hasMeasures
  /\ db = demoDb
  /\ last.out.st = "error"
  /\ last.out.msg = "Maximum call stack size exceeded"
  /\ cacheKey("revenue", Ctx2025) \in DOMAIN last.out.cache
  /\ cacheKey("revenue", Ctx2024) \in DOMAIN last.out.cache
  /\ \A k \in DOMAIN last.out.cache : k[1] = "revenue"
\* the calls of the engine, as opposed to the caller's own writes
EngineCalls == { "runQuery", "evaluateMetrics", "evaluateMetricDefault" }

RECURSIVE Holds(_, _)
Holds(f, row) ==
  CASE f.kind = "and" -> \A i \in 1..Len(f.filters) : Holds(f.filters[i], row)
    [] f.kind = "or" -> \E i \in 1..Len(f.filters) : Holds(f.filters[i], row)
    [] f.kind = "not" -> ~Holds(f.filter, row)
    [] f.kind = "expression" ->
         LET v == RowGet(row, f.field)
         IN  CASE f.op = "between" -> NotAbove(f.value, v) /\ NotAbove(v, f.value2)
               [] f.op = "in" -> v \in { f.value.a[i] : i \in 1..Len(f.value.a) }
               [] f.op = "eq" -> v = f.value
               [] f.op = "lt" -> Below(v, f.value)
               [] f.op = "lte" -> NotAbove(v, f.value)
               [] f.op = "gt" -> Below(f.value, v)
               [] f.op = "gte" -> NotAbove(f.value, v)

\* C25: the predicate compiled from a filter tree is true for a row exactly
\* when the tree holds for it (and: every child, so an empty and holds; or: at
\* least one child, so an empty or does not hold; not: the child does not
\* hold; between: both ends included; in: membership), at every depth, and
\* applyFilter keeps exactly the rows for which it is true, in their order.
C25_CompiledFilterMeansItsTree ==
  last.op = "applyFilter" =>
    /\ \A i \in 1..Len(last.rows) :
         compileFilter(last.filter, last.rows[i]) <=> Holds(last.filter, last.rows[i])
    /\ last.out = SelectSeq(last.rows, LAMBDA row : Holds(last.filter, row))
    /\ last.filter = AndOf(<<>>) => last.out = last.rows
    /\ last.filter = OrOf(<<>>) => last.out = <<>>

\* C25 witness: and(not(or(between(amount, 600, 1000), or()))), three levels
\* deep, dropped the sales of 600 and of 1000, the two ends of the between,
\* with those in between, and kept the sales below 600 and the row that has no
\* amount
C25_Witness ==
  /\ last.op = "applyFilter"
  /\ last.filter
       = AndOf(<<NotOf(OrOf(<<BetweenExpr("amount", Num(600), Num(1000)), OrOf(<<>>)>>))>>)
  /\ \A i \in 1..Len(last.out) :
       "amount" \in DOMAIN last.out[i] => JsLt(last.out[i].amount, Num(600))
  /\ \E i \in 1..Len(last.out) : "amount" \notin DOMAIN last.out[i]
  /\ Len(last.out) = 5


\* what a call returned or threw, without the cache and the log
Result(out) ==
  IF out.st = "ok" THEN [st |-> "ok", v |-> out.v]
  ELSE [st |-> out.st, msg |-> out.msg]

\* C26: over a database that did not change, a call with the shared cache
\* returns what the same call returns with a new empty cache, whatever calls
\* filled the cache before (so two contexts that give a metric the same cache
\* key give it the same value).
C26_CacheIsTransparent ==
  (last.op = "evaluateMetric" /\ added = 0) =>
    Result(last.out) = Result(Alone(last.metric, last.context))

\* the grain option of a definition, when it has one
GrainOption(def) == IF "grain" \in DOMAIN def THEN <<def.grain>> ELSE <<>>

\* a functional definition f and a tagged-union definition t say the same:
\* the same measure or expression, the same grain, the same dependencies (by
\* name, each pair equivalent in turn), the same transform
RECURSIVE Equivalent(_, _)
Equivalent(f, t) ==
  LET Named(n) == /\ n \in DOMAIN fnMetrics
                  /\ n \in DOMAIN demoMetrics
                  /\ Equivalent(fnMetrics[n], demoMetrics[n])
  IN  CASE f.ctor = "simpleMetric" ->
             /\ t.kind = "simple"
             /\ f.measure = t.measure
             /\ GrainOption(f) = GrainOption(t)
        [] f.ctor = "expressionMetric" ->
             /\ t.kind = "expression"
             /\ f.table = t.factTable
             /\ f.expression = t.expression
             /\ GrainOption(f) = GrainOption(t)
        [] f.ctor = "derivedMetric" ->
             /\ t.kind = "derived"
             /\ f.deps = t.dependencies
             /\ f.combine.fn = t.evalFromDeps
             /\ \A i \in 1..Len(f.deps) : Named(f.deps[i])
        [] f.ctor = "contextTransformMetric" ->
             /\ t.kind = "contextTransform"
             /\ f.baseMetric = t.baseMeasure
             /\ t.transform \in DOMAIN demoTransforms
             /\ f.transform = demoTransforms[t.transform]
             /\ Named(f.baseMetric)

\* the functional metric evaluated has an equivalent tagged-union metric
HasCounterpart ==
  /\ last.op = "eval"
  /\ last.metric \in DOMAIN demoMetrics
  /\ Equivalent(fnMetrics[last.metric], demoMetrics[last.metric])

\* C27: the eval function of a metric built with the functional constructors
\* returns the value that evaluateMetric returns, on a new cache, for the
\* equivalent tagged-union metric over the same database, measure registry and
\* filter context (and throws when evaluateMetric throws).
C27_FunctionalEqualsTaggedUnion ==
  HasCounterpart =>
    LET tagged == evaluateMetric(last.metric, db, last.context, EmptyCache, TRUE, MaxStack)
    IN  /\ last.out.st = tagged.st
        /\ last.out.st = "ok" => last.out.v = tagged.v


\* the evaluations of a call that did not find their key in the cache: each
\* looked for a key that the cache did not hold before the call and that no
\* earlier evaluation of the call had looked for
WritesOnce(log, before) ==
  \A i \in CallEvents(log) :
    ~log[i].hit =>
      /\ cacheKey(log[i].metric, log[i].context) \notin DOMAIN before
      /\ \A j \in CallEvents(log) :
           (j < i /\ ~log[j].hit) =>
             cacheKey(log[j].metric, log[j].context)
               # cacheKey(log[i].metric, log[i].context)

\* C28: with acyclic metrics, whatever the caller does next, every entry of
\* the shared cache stays, with the value it has, and a call writes only keys
\* the cache does not hold yet, each once.
C28_CacheOnlyGrows ==
  [][ /\ \A k \in DOMAIN cache : k \in DOMAIN cache' /\ cache'[k] = cache[k]
      /\ last'.op = "evaluateMetric" =>
           /\ WritesOnce(last'.out.log, cache)
           /\ \A k \in DOMAIN cache' \ DOMAIN cache :
                \E i \in CallEvents(last'.out.log) :
                  /\ ~last'.out.log[i].hit
                  /\ cacheKey(last'.out.log[i].metric, last'.out.log[i].context) = k
    ]_vars

\* C28 witness: a second call on the shared cache found a dependency in the
\* cache, left every earlier entry as it was and added entries of its own
C28_Witness ==
  /\ last.op = "evaluateMetric"
  /\ last.before # EmptyCache
  /\ last.out.st = "ok"
  /\ \E i \in CallEvents(last.out.log) : last.out.log[i].hit
  /\ DOMAIN last.before # DOMAIN cache
  /\ \A k \in DOMAIN last.before : k \in DOMAIN cache /\ cache[k] = last.before[k]


\* the error a call threw: its message and the name it carries
ErrorOf(out) == [msg |-> out.msg, name |-> out.name]

\* C29: when a call fails with a lookup error (unknown metric, measure or
\* transform, missing table, missing measure registry), the cache it leaves
\* holds an entry for exactly those evaluations of the call that completed,
\* with their values: none for the metric called, none for any evaluation that
\* failed or waited for a failing one; and the same call made again with that
\* cache fails with the same error and leaves the cache as it is.
C29_FailedCallCachesCompletedOnly ==
  (FreshCall /\ last.out.st = "error" /\ last.out.msg \in LookupErrors) =>
    LET log == last.out.log
        left == last.out.cache
        again == evaluateMetric(last.metric, db, last.context, left,
                                last.hasMeasures, MaxStack)
    IN  /\ cacheKey(last.metric, last.context) \notin DOMAIN left
        /\ \A i \in CallEvents(log) :
             LET key == cacheKey(log[i].metric, log[i].context)
                 alone == Fresh(log[i].metric, log[i].context)
             IN  IF alone.st = "ok"
                 THEN key \in DOMAIN left /\ left[key] = alone.v
                 ELSE key \notin DOMAIN left
        /\ \A k \in DOMAIN left :
             \E i \in CallEvents(log) : cacheKey(log[i].metric, log[i].context) = k
        /\ again.st = "error"
        /\ ErrorOf(again) = ErrorOf(last.out)
        /\ again.cache = left

\* C29 witness: salesVsBudgetPct over a database without a budget table:
\* revenue completed and is cached, budget failed, and nothing is cached for
\* budget and for salesVsBudgetPct, which waited for it
C29_Witness ==
  /\ FreshCall
  /\ last.metric = "salesVsBudgetPct"
  /\ last.context = CtxFeb2025
  /\ last.hasMeasures
  /\ last.out.st = "error"
  /\ last.out.msg = "Missing rows for table"
  /\ last.out.cache = (cacheKey("revenue", CtxFeb2025) :> Num(950 + 450))


\* a registered ContextTransform metric with a registered transform
IsTransformMetric(m) ==
  /\ m \in DOMAIN demoMetrics
  /\ demoMetrics[m].kind = "contextTransform"
  /\ demoMetrics[m].transform \in DOMAIN demoTransforms

\* C30: a call that returns, for a ContextTransform metric A (transform tA)
\* whose base B is a ContextTransform metric (transform tB, base C), evaluated
\* B under tA(c) and C under tB(tA(c)), the outer transform first, and left
\* the value it returned under (A, c), (B, tA(c)) and (C, tB(tA(c))).
C30_NestedTransformsApplyOuterFirst ==
  ( /\ FreshCall
    /\ last.out.st = "ok"
    /\ IsTransformMetric(last.metric)
    /\ IsTransformMetric(demoMetrics[last.metric].baseMeasure) ) =>
    LET A == last.metric
        B == demoMetrics[A].baseMeasure
        C == demoMetrics[B].baseMeasure
        c == last.context
        cB == ApplyTransform(demoTransforms[demoMetrics[A].transform], c)
        cC == ApplyTransform(demoTransforms[demoMetrics[B].transform], cB)
        log == last.out.log
        left == last.out.cache
    IN  /\ \A i \in CallEvents(log) :
             /\ log[i].metric = B => log[i].context = cB
             /\ log[i].metric = C => log[i].context = cC
        /\ \E i, j \in CallEvents(log) :
             i < j /\ log[i].metric = B /\ log[j].metric = C
        /\ last.out.v = Fresh(C, cC).v
        /\ \A k \in {cacheKey(A, c), cacheKey(B, cB), cacheKey(C, cC)} :
             k \in DOMAIN left /\ left[k] = last.out.v

\* C30 witness: priorMonth over ytd over revenue for February 2025 is the
\* revenue of January 2025 (month <= 1); ytd first and priorMonth second would
\* have asked for month NaN
C30_Witness ==
  /\ FreshCall
  /\ last.metric = "salesAmountPriorMonthYTD"
  /\ last.context = CtxFeb2025
  /\ db = demoDb
  /\ last.out.st = "ok"
  /\ last.out.v = Num(1000 + 600 + 500)
  /\ last.out.cache
       = [k \in { cacheKey("salesAmountPriorMonthYTD", CtxFeb2025),
                  cacheKey("salesAmountYTD", CtxJan2025),
                  cacheKey("revenue",
                           << <<"year", Num(2025)>>,
                              <<"month", Obj(<< <<"lte", Num(1)>> >>)>> >>) }
            |-> Num(2100)]
  /\ Fresh("revenue",
           ApplyTransform([fn |-> "priorMonth"],
                          ApplyTransform([fn |-> "ytd"], CtxFeb2025))).v = Num(0)


====
